---- MODULE Spec2Model ----
(***************************************************************************)
(* A model of Calc_Pro.py: the CalculatorEngine (evaluate, the angle mode, *)
(* solve_quadratic) and the CalculatorApp controller (on_button_click,     *)
(* _calculate_result).                                                     *)
(*                                                                         *)
(* Text is a sequence of one-character strings.  evaluate hands the text   *)
(* to Python's eval; eval is modelled as Python defines it (tokenizer,     *)
(* expression grammar, evaluation order, exceptions) on the part of the    *)
(* language the inputs of the model can reach.  Anything outside that part *)
(* evaluates to the value Unmodelled, and ModelCovers states that no       *)
(* reachable call produces it.                                             *)
(***************************************************************************)
EXTENDS Integers, Sequences, FiniteSets, TLC

VARIABLES
    current_expression,  \* CalculatorApp.current_expression
    is_result_shown,     \* CalculatorApp.is_result_shown
    angle_mode,          \* CalculatorEngine.angle_mode
    history,             \* CalculatorEngine.history
    mode_presses,        \* number of clicks on the 'DEG' button so far
    last_call,           \* the most recent call into the engine and what it returned
    pc,                  \* position of an evaluate call that runs as two steps
    env                  \* the environment that call built (the mode its trig entries captured)

vars == <<current_expression, is_result_shown, angle_mode, history,
          mode_presses, last_call, pc, env>>

(***************************************************************************)
(* Bounds of the model.                                                    *)
(***************************************************************************)
MaxLen == 3       \* longest expression typed on the buttons, in characters
MaxHist == 2      \* '=' is pressed only while the history is shorter than this
MaxPresses == 2   \* clicks on the 'DEG' button
MaxTokens == 3    \* longest expression handed to evaluate directly, in words of Alphabet
MaxCoef == 3      \* solve_quadratic coefficients range over -MaxCoef..MaxCoef

(***************************************************************************)
(* Characters and text.                                                    *)
(***************************************************************************)
Digits == {"0", "1", "2", "3", "4", "5", "6", "7", "8", "9"}

DigitVal(c) ==
    CASE c = "0" -> 0 [] c = "1" -> 1 [] c = "2" -> 2 [] c = "3" -> 3
      [] c = "4" -> 4 [] c = "5" -> 5 [] c = "6" -> 6 [] c = "7" -> 7
      [] c = "8" -> 8 [] c = "9" -> 9

DigitChar(n) ==
    CASE n = 0 -> "0" [] n = 1 -> "1" [] n = 2 -> "2" [] n = 3 -> "3"
      [] n = 4 -> "4" [] n = 5 -> "5" [] n = 6 -> "6" [] n = 7 -> "7"
      [] n = 8 -> "8" [] n = 9 -> "9"

LowerLetters == {"a", "b", "c", "d", "e", "f", "g", "h", "i", "j", "k", "l", "m",
                 "n", "o", "p", "q", "r", "s", "t", "u", "v", "w", "x", "y", "z"}
UpperLetters == {"A", "B", "C", "D", "E", "F", "G", "H", "I", "J", "K", "L", "M",
                 "N", "O", "P", "Q", "R", "S", "T", "U", "V", "W", "X", "Y", "Z"}
Letters == LowerLetters \cup UpperLetters

\* Characters that start or continue a Python identifier.
\* The characters of the buttons that are not ASCII, named by their code points.
TimesGlyph == "U+00D7"       \* the multiplication sign of the buttons
DivGlyph == "U+00F7"         \* the division sign
RootGlyph == "U+221A"        \* the square root sign
PiGlyph == "U+03C0"          \* the Greek letter pi

IdStart == Letters \cup {"_", PiGlyph}
IdChars == IdStart \cup Digits

RECURSIVE Concat(_)
Concat(ss) == IF ss = <<>> THEN <<>> ELSE Head(ss) \o Concat(Tail(ss))

\* s[i..j-1]
Slice(s, i, j) == SubSeq(s, i, j - 1)

RECURSIVE SpanEnd(_, _, _)
\* the first index >= i whose character is not in set
SpanEnd(s, i, set) ==
    IF i <= Len(s) /\ s[i] \in set THEN SpanEnd(s, i + 1, set) ELSE i

RECURSIVE IndexOf(_, _, _)
\* the first index >= i holding c, or 0
IndexOf(s, i, c) ==
    IF i > Len(s) THEN 0 ELSE IF s[i] = c THEN i ELSE IndexOf(s, i + 1, c)

Abs(n) == IF n < 0 THEN -n ELSE n
Sign(n) == IF n < 0 THEN -1 ELSE IF n > 0 THEN 1 ELSE 0

RECURSIVE Pow10(_)
Pow10(k) == IF k = 0 THEN 1 ELSE 10 * Pow10(k - 1)

RECURSIVE Gcd(_, _)
Gcd(a, b) == IF b = 0 THEN a ELSE Gcd(b, a % b)

RECURSIVE NatText(_)
\* str(n) for n >= 0
NatText(n) == IF n < 10 THEN <<DigitChar(n)>> ELSE NatText(n \div 10) \o <<DigitChar(n % 10)>>

IntText(n) == IF n < 0 THEN <<"-">> \o NatText(-n) ELSE NatText(n)

RECURSIVE DigitsNat(_)
\* int(ds) for a sequence of digit characters
DigitsNat(ds) ==
    IF ds = <<>> THEN 0
    ELSE 10 * DigitsNat(SubSeq(ds, 1, Len(ds) - 1)) + DigitVal(ds[Len(ds)])

RECURSIVE StripLeadingZeros(_)
StripLeadingZeros(ds) ==
    IF ds # <<>> /\ Head(ds) = "0" THEN StripLeadingZeros(Tail(ds)) ELSE ds

RECURSIVE StripTrailingZeros(_)
StripTrailingZeros(ds) ==
    IF ds # <<>> /\ ds[Len(ds)] = "0"
    THEN StripTrailingZeros(SubSeq(ds, 1, Len(ds) - 1)) ELSE ds

RECURSIVE Zeros(_)
Zeros(k) == IF k <= 0 THEN <<>> ELSE <<"0">> \o Zeros(k - 1)

(***************************************************************************)
(* Python values.  Every value is a record of one shape:                   *)
(*   k = "int"    n                      an int                            *)
(*   k = "bool"   n (0 or 1)             False, True                       *)
(*   k = "float"  n / d                  a float; d > 0, and n = 0 with    *)
(*                                       d = 1 is 0.0, with d = -1 is -0.0 *)
(*   k = "dec"    n (sign), s (digits),  a float literal too long for n/d  *)
(*                d (digits after the point)                               *)
(*   k = "irr"    n (sign), s = <<repr>>  a float that a math function     *)
(*                                       returned and n/d cannot hold      *)
(*   k = "func"   s = <<name>>           an entry of env that is callable  *)
(*   k = "str"    s                      a str                             *)
(*   k = "tuple", "list"   items         a tuple, a list                   *)
(*   k = "raise"  s = <<exception>>      evaluation raised                 *)
(*   k = "unmodelled"                    outside the modelled language     *)
(***************************************************************************)
Val(k, n, d, s, items) == [k |-> k, n |-> n, d |-> d, s |-> s, items |-> items]

MkInt(n) == Val("int", n, 1, <<>>, <<>>)
MkBool(b) == Val("bool", IF b THEN 1 ELSE 0, 1, <<>>, <<>>)
MkIrr(id) == Val("irr", 1, 1, <<id>>, <<>>)
MkStr(s) == Val("str", 0, 1, s, <<>>)
MkTuple(items) == Val("tuple", 0, 1, <<>>, items)
MkList(items) == Val("list", 0, 1, <<>>, items)
Raise(exc) == Val("raise", 0, 1, <<exc>>, <<>>)
Unmodelled == Val("unmodelled", 0, 1, <<>>, <<>>)

IsRaise(v) == v.k = "raise"
IsUnmodelled(v) == v.k = "unmodelled"
\* evaluation of an operand stopped: the operation that uses it does not run
Stops(v) == v.k \in {"raise", "unmodelled"}

\* The float n/d in lowest terms; d # 0.  A zero takes the sign IEEE 754 gives
\* the quotient of n = 0 by d.
MkFloat(n, d) ==
    IF n = 0 THEN Val("float", 0, IF d < 0 THEN -1 ELSE 1, <<>>, <<>>)
    ELSE LET g == Gcd(Abs(n), Abs(d))
         IN  Val("float", (Sign(d) * n) \div g, Abs(d) \div g, <<>>, <<>>)

FZero(neg) == Val("float", 0, IF neg THEN -1 ELSE 1, <<>>, <<>>)
FIsZero(f) == f.n = 0
FIsNeg(f) == f.n < 0 \/ (f.n = 0 /\ f.d < 0)
FDen(f) == Abs(f.d)

\* float(x) for an int or a bool
ToFloat(v) == IF v.k = "float" THEN v ELSE MkFloat(v.n, 1)

\* IEEE 754 arithmetic on floats n/d (exact where the result is not a zero;
\* the sign of a zero follows the standard).
FNeg(f) == IF f.n = 0 THEN FZero(~FIsNeg(f)) ELSE Val("float", -f.n, f.d, <<>>, <<>>)

FAdd(f, g) ==
    LET num == f.n * FDen(g) + g.n * FDen(f)
    IN  IF num = 0 THEN FZero(FIsZero(f) /\ FIsZero(g) /\ FIsNeg(f) /\ FIsNeg(g))
        ELSE MkFloat(num, FDen(f) * FDen(g))

FSub(f, g) == FAdd(f, FNeg(g))

FMul(f, g) ==
    IF f.n = 0 \/ g.n = 0 THEN FZero(FIsNeg(f) # FIsNeg(g))
    ELSE MkFloat(f.n * g.n, FDen(f) * FDen(g))

\* g is not a zero
FDiv(f, g) ==
    IF f.n = 0 THEN FZero(FIsNeg(f) # FIsNeg(g))
    ELSE MkFloat(f.n * FDen(g) * Sign(g.n), FDen(f) * Abs(g.n))

FLess(f, g) == f.n * FDen(g) < g.n * FDen(f)

\* floor(n / d) for d > 0
FloorDiv(n, d) == IF n >= 0 THEN n \div d ELSE -((-n + d - 1) \div d)

\* Python's n // d and n % d on ints, d # 0: the remainder has the sign of d
PyFloorDiv(n, d) == IF d > 0 THEN FloorDiv(n, d) ELSE FloorDiv(-n, -d)
PyMod(n, d) == n - d * PyFloorDiv(n, d)

\* Python's float %, g not a zero: a zero remainder takes the sign of g
FMod(f, g) ==
    LET q == PyFloorDiv(f.n * FDen(g), g.n * FDen(f))
        r == FSub(f, FMul(MkFloat(q, 1), g))
    IN  IF r.n = 0 THEN FZero(FIsNeg(g)) ELSE r

RECURSIVE IntPow(_, _)
IntPow(b, e) == IF e = 0 THEN 1 ELSE b * IntPow(b, e - 1)

(***************************************************************************)
(* Number formatting: f"{x:.10g}" (ten significant digits, general         *)
(* format), repr(float) and str of the other values.                       *)
(***************************************************************************)
SigDigits == 10   \* the precision in f"{result:.10g}"

RECURSIVE GenDigits(_, _, _)
\* the first k digits of the fraction r/d (r < d), and the remainder left
GenDigits(r, d, k) ==
    IF k = 0 THEN [ds |-> <<>>, r |-> r]
    ELSE LET rest == GenDigits((r * 10) % d, d, k - 1)
         IN  [ds |-> <<DigitChar((r * 10) \div d)>> \o rest.ds, r |-> rest.r]

RECURSIVE LeadZeros(_, _)
\* the number of zeros that open the fraction r/d, 0 < r < d
LeadZeros(r, d) == IF r * 10 >= d THEN 0 ELSE 1 + LeadZeros(r * 10, d)

RECURSIVE IsPow2(_)
IsPow2(d) == d = 1 \/ (d % 2 = 0 /\ IsPow2(d \div 2))

RECURSIVE Incr(_)
\* ds + 1 on a digit sequence: the digits, and whether a carry left it
Incr(ds) ==
    IF ds = <<>> THEN [ds |-> <<>>, carry |-> TRUE]
    ELSE LET last == DigitVal(ds[Len(ds)])
             init == SubSeq(ds, 1, Len(ds) - 1)
         IN  IF last < 9 THEN [ds |-> init \o <<DigitChar(last + 1)>>, carry |-> FALSE]
             ELSE LET up == Incr(init) IN [ds |-> up.ds \o <<"0">>, carry |-> up.carry]

\* The digits ds (value d1.d2d3... * 10^x) rounded up when `up`.
Rounded(ds, x, up) ==
    IF ~up THEN [ds |-> ds, x |-> x]
    ELSE LET i == Incr(ds)
         IN  IF i.carry THEN [ds |-> <<"1">> \o SubSeq(i.ds, 1, Len(ds) - 1), x |-> x + 1]
             ELSE [ds |-> i.ds, x |-> x]

\* The SigDigits significant digits of |n/d| # 0, correctly rounded, and the
\* decimal exponent of the first. A tie is rounded to even where n/d is the
\* exact value of the double (d a power of two); ok is FALSE for any other tie.
FloatSig(f) ==
    LET n == Abs(f.n)
        d == f.d
        q0 == n \div d
        r0 == n % d
        int == IF q0 = 0 THEN <<>> ELSE NatText(q0)
        z == IF q0 = 0 THEN LeadZeros(r0, d) ELSE 0
        x == IF q0 = 0 THEN -(z + 1) ELSE Len(int) - 1
        g == GenDigits(r0 * Pow10(z), d, SigDigits - Len(int))
        raw == int \o g.ds
        tie == 2 * g.r = d
        up == 2 * g.r > d \/ (tie /\ DigitVal(raw[Len(raw)]) % 2 = 1)
        r == Rounded(raw, x, up)
    IN  [ds |-> r.ds, x |-> r.x, ok |-> ~tie \/ IsPow2(d)]

\* The significant digits of a long literal (digits ds, `frac` of them after the
\* point): exact when it has at most SigDigits of them.
DecSig(ds, frac) ==
    LET sig == StripLeadingZeros(ds)
        cut == StripTrailingZeros(sig)
    IN  [ds |-> cut \o Zeros(SigDigits - Len(cut)), x |-> Len(sig) - 1 - frac,
         ok |-> Len(cut) <= SigDigits]

\* Two-digit exponent of the e-notation
ExpText(x) ==
    <<"e", IF x < 0 THEN "-" ELSE "+">> \o (IF Abs(x) < 10 THEN <<"0">> ELSE <<>>) \o NatText(Abs(x))

\* The 'g' presentation of the digits ds with exponent x: scientific when
\* x < -4 or x >= SigDigits, fixed otherwise; trailing zeros removed.
RenderG(neg, ds, x) ==
    LET t == StripTrailingZeros(ds)
        body ==
            IF x < -4 \/ x >= SigDigits
            THEN <<t[1]>> \o (IF Len(t) > 1 THEN <<".">> \o SubSeq(t, 2, Len(t)) ELSE <<>>)
                 \o ExpText(x)
            ELSE IF x >= 0
            THEN SubSeq(ds, 1, x + 1)
                 \o (IF Len(t) > x + 1 THEN <<".">> \o SubSeq(t, x + 2, Len(t)) ELSE <<>>)
            ELSE <<"0", ".">> \o Zeros(-x - 1) \o t
    IN  (IF neg THEN <<"-">> ELSE <<>>) \o body

UnmodelledText == <<"<unmodelled>">>

(***************************************************************************)
(* evaluate: the display glyphs are replaced before eval.                   *)
(***************************************************************************)
Glyph(c) ==
    CASE c = TimesGlyph -> <<"*">>
      [] c = DivGlyph -> <<"/">>
      [] c = "^" -> <<"*", "*">>
      [] c = RootGlyph -> <<"s", "q", "r", "t">>
      [] OTHER -> <<c>>

RECURSIVE CleanExpr(_)
\* the four expression.replace(glyph, operator) calls, left to right
CleanExpr(expression) ==
    IF expression = <<>> THEN <<>>
    ELSE Glyph(Head(expression)) \o CleanExpr(Tail(expression))

(***************************************************************************)
(* Python's tokenizer, on the text eval is given.  A token is              *)
(* [t, s, v]: t its type ("num", "name", "str", "op", "bad" for text no    *)
(* token matches, "unmodelled" for a token of Python the model leaves      *)
(* out), s its text, v the value of a literal.                             *)
(***************************************************************************)
Token(t, s, v) == [t |-> t, s |-> s, v |-> v]

Keywords ==
    { <<"F","a","l","s","e">>, <<"N","o","n","e">>, <<"T","r","u","e">>,
      <<"a","n","d">>, <<"a","s">>, <<"a","s","s","e","r","t">>, <<"a","s","y","n","c">>,
      <<"a","w","a","i","t">>, <<"b","r","e","a","k">>, <<"c","l","a","s","s">>,
      <<"c","o","n","t","i","n","u","e">>, <<"d","e","f">>, <<"d","e","l">>,
      <<"e","l","i","f">>, <<"e","l","s","e">>, <<"e","x","c","e","p","t">>,
      <<"f","i","n","a","l","l","y">>, <<"f","o","r">>, <<"f","r","o","m">>,
      <<"g","l","o","b","a","l">>, <<"i","f">>, <<"i","m","p","o","r","t">>, <<"i","n">>,
      <<"i","s">>, <<"l","a","m","b","d","a">>, <<"n","o","n","l","o","c","a","l">>,
      <<"n","o","t">>, <<"o","r">>, <<"p","a","s","s">>, <<"r","a","i","s","e">>,
      <<"r","e","t","u","r","n">>, <<"t","r","y">>, <<"w","h","i","l","e">>,
      <<"w","i","t","h">>, <<"y","i","e","l","d">> }

\* Operators and delimiters the grammar below knows.
OpChars == {"+", "-", "*", "/", "%", "<", ",", "(", ")", "[", "]", ":", "."}
\* Characters of Python operators the model leaves out.
OtherOpChars == {">", "=", "!", "&", "|", "~", "{", "}", "@", ";", "\"", "\\", "#"}

StartsWith(s, i, w) == i + Len(w) - 1 <= Len(s) /\ SubSeq(s, i, i + Len(w) - 1) = w

\* What may follow a number literal with no space between: a keyword (the
\* tokenizer's verify_end_of_number), an exponent, an imaginary suffix, a digit
\* separator, a base prefix after a lone 0.  None of them is modelled.
NumberRunsOn(s, i, j) ==
    \/ \E w \in { <<"a","n","d">>, <<"e","l","s","e">>, <<"f","o","r">>, <<"i","f">>,
                  <<"i","n">>, <<"i","s">>, <<"o","r">>, <<"n","o","t">> } : StartsWith(s, j, w)
    \/ s[j] \in {"j", "J", "_"}
    \/ /\ s[j] \in {"e", "E"}
       /\ j < Len(s)
       /\ \/ s[j + 1] \in Digits
          \/ s[j + 1] \in {"+", "-"} /\ j + 1 < Len(s) /\ s[j + 2] \in Digits
    \/ Slice(s, i, j) = <<"0">> /\ s[j] \in {"x", "X", "o", "O", "b", "B"}

\* The token of the number literal s[i..j-1]: int digits s[i..a-1], and with
\* `dot` a point at a and the fraction after it.
NumberToken(s, i, a, dot, j) ==
    LET int == Slice(s, i, a)
        frac == IF dot THEN Slice(s, a + 1, j) ELSE <<>>
        all == int \o frac
        sig == StripLeadingZeros(all)
    IN  IF j <= Len(s) /\ s[j] \in IdStart /\ s[j] # PiGlyph
        THEN IF NumberRunsOn(s, i, j) THEN Token("unmodelled", <<>>, Unmodelled)
             ELSE Token("bad", <<>>, Unmodelled)    \* invalid decimal literal
        ELSE IF ~dot
        THEN IF Len(int) > 1 /\ int[1] = "0" /\ sig # <<>>
             THEN Token("bad", <<>>, Unmodelled)    \* leading zeros in an int literal
             ELSE IF Len(sig) > 9 THEN Token("unmodelled", <<>>, Unmodelled)
             ELSE Token("num", all, MkInt(DigitsNat(sig)))
        ELSE IF sig = <<>> THEN Token("num", all, MkFloat(0, 1))
        ELSE IF Len(sig) <= 8 /\ Len(frac) <= 8
        THEN Token("num", all, MkFloat(DigitsNat(sig), Pow10(Len(frac))))
        ELSE Token("num", all, Val("dec", 1, Len(frac), all, <<>>))

RECURSIVE Lex(_, _)
\* the tokens of s from index i on
Lex(s, i) ==
    IF i > Len(s) THEN <<>>
    ELSE LET c == s[i] IN
    IF c = " " THEN Lex(s, i + 1)
    ELSE IF c \in Digits \/ (c = "." /\ i < Len(s) /\ s[i + 1] \in Digits)
    THEN LET a == SpanEnd(s, i, Digits)
             dot == a <= Len(s) /\ s[a] = "."
             j == IF dot THEN SpanEnd(s, a + 1, Digits) ELSE a
         IN  <<NumberToken(s, i, a, dot, j)>> \o Lex(s, j)
    ELSE IF c \in IdStart
    THEN LET j == SpanEnd(s, i, IdChars)
             name == Slice(s, i, j)
         IN  IF name \in Keywords \/ (j <= Len(s) /\ s[j] = "'" /\ Len(name) <= 2)
             THEN <<Token("unmodelled", name, Unmodelled)>>
             ELSE <<Token("name", name, Unmodelled)>> \o Lex(s, j)
    ELSE IF c = "'"
    THEN LET j == IndexOf(s, i + 1, "'")
         IN  IF j = 0 THEN <<Token("bad", <<>>, Unmodelled)>>   \* unterminated string
             ELSE IF j = i + 1 /\ j < Len(s) /\ s[j + 1] = "'"
             THEN <<Token("unmodelled", <<>>, Unmodelled)>>       \* a triple quote
             ELSE <<Token("str", Slice(s, i + 1, j), MkStr(Slice(s, i + 1, j)))>> \o Lex(s, j + 1)
    ELSE IF StartsWith(s, i, <<"*", "*">>) \/ StartsWith(s, i, <<"/", "/">>)
            \/ StartsWith(s, i, <<"<", "<">>)
    THEN IF i + 2 <= Len(s) /\ s[i + 2] = "="
         THEN <<Token("unmodelled", <<>>, Unmodelled)>>
         ELSE <<Token("op", <<c, c>>, Unmodelled)>> \o Lex(s, i + 2)
    ELSE IF c \in OpChars
    THEN IF i < Len(s) /\ s[i + 1] \in {"=", ">"} /\ c \in {"+", "-", "*", "/", "%", "<", ":"}
         THEN <<Token("unmodelled", <<>>, Unmodelled)>>
         ELSE <<Token("op", <<c>>, Unmodelled)>> \o Lex(s, i + 1)
    ELSE IF c \in OtherOpChars THEN <<Token("unmodelled", <<>>, Unmodelled)>>
    ELSE <<Token("bad", <<>>, Unmodelled)>>

(***************************************************************************)
(* Python's expression grammar (the input of eval), by precedence:         *)
(*   expressions := comparison (',' comparison)* [',']                     *)
(*   comparison  := shift ('<' shift)*                                     *)
(*   shift       := sum ('<<' sum)*                                        *)
(*   sum         := term (('+' | '-') term)*                               *)
(*   term        := factor (('*' | '/' | '//' | '%') factor)*              *)
(*     (shift, sum and term are parsed by one loop on binding strength)    *)
(*   factor      := ('+' | '-') factor | power                             *)
(*   power       := primary ['**' factor]                                  *)
(*   primary     := atom ('(' [expressions] ')')*                          *)
(*   atom        := NUMBER | NAME | STRING+ | '(' [expressions] ')'        *)
(*                | '[' [expressions] ']'                                  *)
(* A parse is [st, node, i]: st is "ok", "syntax" (a SyntaxError) or       *)
(* "unmodelled" (a subscript or an attribute reference), node the tree and *)
(* i the index of the next token.                                          *)
(***************************************************************************)
P(st, node, i) == [st |-> st, node |-> node, i |-> i]
NoNode == [op |-> "none"]
SyntaxFail == P("syntax", NoNode, 0)
UnmodelledParse == P("unmodelled", NoNode, 0)

NConst(v) == [op |-> "const", v |-> v]
NName(id) == [op |-> "name", id |-> id]
NUn(o, x) == [op |-> "un", o |-> o, x |-> x]
NBin(o, l, r) == [op |-> "bin", o |-> o, l |-> l, r |-> r]
NCmp(first, rest) == [op |-> "cmp", first |-> first, rest |-> rest]
NCall(f, args) == [op |-> "call", f |-> f, args |-> args]
NTuple(items) == [op |-> "tuple", items |-> items]
NList(items) == [op |-> "list", items |-> items]

IsOp(ts, i, o) == i <= Len(ts) /\ ts[i].t = "op" /\ ts[i].s = o
IsOpIn(ts, i, os) == i <= Len(ts) /\ ts[i].t = "op" /\ ts[i].s \in os

\* the binding strength of a binary operator; 0 for any other token
BinPrec(o) ==
    CASE o = <<"<", "<">> -> 1
      [] o \in { <<"+">>, <<"-">> } -> 2
      [] o \in { <<"*">>, <<"/">>, <<"/", "/">>, <<"%">> } -> 3
      [] OTHER -> 0

\* a token that can open an expression
StartsExpr(ts, i) ==
    /\ i <= Len(ts)
    /\ \/ ts[i].t \in {"num", "name", "str"}
       \/ IsOpIn(ts, i, { <<"(">>, <<"[">>, <<"+">>, <<"-">> })

RECURSIVE ParseExprs(_, _), ParseMore(_, _, _), ParseComparison(_, _), ParseCmpRest(_, _, _, _),
          ParseBinary(_, _, _), ParseLoop(_, _, _, _), ParseFactor(_, _),
          ParseTrailers(_, _, _), ParseAtom(_, _), ParseStrings(_, _, _)

\* adjacent string literals are one string
ParseStrings(ts, i, acc) ==
    IF i <= Len(ts) /\ ts[i].t = "str" THEN ParseStrings(ts, i + 1, acc \o ts[i].s)
    ELSE P("ok", NConst(MkStr(acc)), i)

\* no expressions, before token i
NoExprs(i) == [st |-> "ok", items |-> <<>>, comma |-> TRUE, i |-> i]

\* the expressions e, enclosed: they end at the closing `close`
CloseEnclosed(ts, e, close) ==
    IF e.st # "ok" THEN e
    ELSE IF IsOp(ts, e.i, close) THEN [e EXCEPT !.i = e.i + 1]
    ELSE [e EXCEPT !.st = "syntax"]

\* expressions e are one expression, or with a comma a tuple
GroupOrTuple(e) ==
    IF e.st # "ok" THEN P(e.st, NoNode, 0)
    ELSE IF Len(e.items) = 1 /\ ~e.comma THEN P("ok", e.items[1], e.i)
    ELSE P("ok", NTuple(e.items), e.i)

\* expressions e in brackets are a list
ListOf(e) == IF e.st # "ok" THEN P(e.st, NoNode, 0) ELSE P("ok", NList(e.items), e.i)

ParseAtom(ts, i) ==
    IF IsOp(ts, i, <<"(">>)
    THEN GroupOrTuple(IF IsOp(ts, i + 1, <<")">>) THEN NoExprs(i + 2)
                      ELSE CloseEnclosed(ts, ParseExprs(ts, i + 1), <<")">>))
    ELSE IF IsOp(ts, i, <<"[">>)
    THEN ListOf(IF IsOp(ts, i + 1, <<"]">>) THEN NoExprs(i + 2)
                ELSE CloseEnclosed(ts, ParseExprs(ts, i + 1), <<"]">>))
    ELSE IF i > Len(ts) THEN SyntaxFail
    ELSE CASE ts[i].t = "num" -> P("ok", NConst(ts[i].v), i + 1)
           [] ts[i].t = "name" -> P("ok", NName(ts[i].s), i + 1)
           [] ts[i].t = "str" -> ParseStrings(ts, i, <<>>)
           [] OTHER -> SyntaxFail

\* node called with the arguments e, and the calls that follow
CallWith(ts, node, e) ==
    IF e.st # "ok" THEN P(e.st, NoNode, 0)
    ELSE ParseTrailers(ts, NCall(node, e.items), e.i)

\* the calls that follow an atom
ParseTrailers(ts, node, i) ==
    IF IsOp(ts, i, <<"(">>)
    THEN CallWith(ts, node, IF IsOp(ts, i + 1, <<")">>) THEN NoExprs(i + 2)
                            ELSE CloseEnclosed(ts, ParseExprs(ts, i + 1), <<")">>))
    ELSE IF IsOpIn(ts, i, { <<"[">>, <<".">> }) THEN UnmodelledParse
    ELSE P("ok", node, i)

\* primary: the atom a and its trailers
TrailersOf(ts, a) == IF a.st # "ok" THEN a ELSE ParseTrailers(ts, a.node, a.i)

PowerOf(b, e) ==
    IF e.st # "ok" THEN e ELSE P("ok", NBin(<<"*", "*">>, b.node, e.node), e.i)

\* power: the primary b and its exponent
ExponentOf(ts, b) ==
    IF b.st # "ok" \/ ~IsOp(ts, b.i, <<"*", "*">>) THEN b
    ELSE PowerOf(b, ParseFactor(ts, b.i + 1))

UnaryOf(o, x) == IF x.st # "ok" THEN x ELSE P("ok", NUn(o, x.node), x.i)

ParseFactor(ts, i) ==
    IF IsOpIn(ts, i, { <<"+">>, <<"-">> }) THEN UnaryOf(ts[i].s, ParseFactor(ts, i + 1))
    ELSE ExponentOf(ts, TrailersOf(ts, ParseAtom(ts, i)))

LoopWith(ts, prec, left, o, r) ==
    IF r.st # "ok" THEN r ELSE ParseLoop(ts, prec, NBin(o, left, r.node), r.i)

\* left-associative: the binary operators that bind at least as `prec` does and
\* follow the operand `left`; each takes the operand that binds tighter
ParseLoop(ts, prec, left, i) ==
    IF i <= Len(ts) /\ ts[i].t = "op" /\ BinPrec(ts[i].s) >= prec
    THEN LoopWith(ts, prec, left, ts[i].s, ParseBinary(ts, BinPrec(ts[i].s) + 1, i + 1))
    ELSE P("ok", left, i)

LoopOf(ts, prec, l) == IF l.st # "ok" THEN l ELSE ParseLoop(ts, prec, l.node, l.i)

\* shift (prec 1), sum (2), term (3); beyond, a factor
ParseBinary(ts, prec, i) == LoopOf(ts, prec, ParseFactor(ts, i))

CmpWith(ts, first, rest, r) ==
    IF r.st # "ok" THEN r ELSE ParseCmpRest(ts, first, Append(rest, r.node), r.i)

\* the '<' operands that follow the first operand of a comparison
ParseCmpRest(ts, first, rest, i) ==
    IF ~IsOp(ts, i, <<"<">>)
    THEN P("ok", IF rest = <<>> THEN first ELSE NCmp(first, rest), i)
    ELSE CmpWith(ts, first, rest, ParseBinary(ts, 1, i + 1))

CmpRestOf(ts, l) == IF l.st # "ok" THEN l ELSE ParseCmpRest(ts, l.node, <<>>, l.i)

ParseComparison(ts, i) == CmpRestOf(ts, ParseBinary(ts, 1, i))

\* the expression e after `items`, and what follows it
MoreWith(ts, items, e) ==
    IF e.st # "ok" THEN [st |-> e.st, items |-> <<>>, comma |-> FALSE, i |-> 0]
    ELSE ParseMore(ts, Append(items, e.node), e.i)

\* what follows the expressions `items`, the last of which ended before i
ParseMore(ts, items, i) ==
    IF ~IsOp(ts, i, <<",">>) THEN [st |-> "ok", items |-> items, comma |-> Len(items) > 1, i |-> i]
    ELSE IF ~StartsExpr(ts, i + 1)
    THEN [st |-> "ok", items |-> items, comma |-> TRUE, i |-> i + 1]
    ELSE MoreWith(ts, items, ParseComparison(ts, i + 1))

ParseExprs(ts, i) == MoreWith(ts, <<>>, ParseComparison(ts, i))

\* the expressions e are the whole text
WholeOf(ts, e) ==
    IF e.st = "ok" /\ e.i # Len(ts) + 1 THEN SyntaxFail ELSE GroupOrTuple(e)

\* compile(source, mode 'eval'): the tree of the whole text
ParseEval(ts) ==
    IF \E i \in 1..Len(ts) : ts[i].t = "unmodelled" THEN UnmodelledParse
    ELSE IF \E i \in 1..Len(ts) : ts[i].t = "bad" THEN SyntaxFail
    ELSE WholeOf(ts, ParseExprs(ts, 1))

(***************************************************************************)
(* Python's operators on values.                                           *)
(***************************************************************************)
IsNumber(v) == v.k \in {"int", "bool", "float", "dec", "irr"}
\* numbers the model computes with: an int, a bool, a float n/d
IsExact(v) == v.k \in {"int", "bool", "float"}
IsIntLike(v) == v.k \in {"int", "bool"}

\* -x
PyNeg(x) ==
    IF IsIntLike(x) THEN MkInt(-x.n)
    ELSE IF x.k = "float" THEN FNeg(x)
    ELSE IF x.k \in {"dec", "irr"} THEN [x EXCEPT !.n = -x.n]
    ELSE Raise("TypeError")

\* +x
PyPos(x) ==
    IF IsIntLike(x) THEN MkInt(x.n) ELSE IF IsNumber(x) THEN x ELSE Raise("TypeError")

\* abs(x), the builtin
PyAbs(x) ==
    IF IsIntLike(x) THEN MkInt(Abs(x.n))
    ELSE IF x.k = "float" THEN (IF FIsNeg(x) THEN FNeg(x) ELSE x)
    ELSE IF x.k \in {"dec", "irr"} THEN [x EXCEPT !.n = 1]
    ELSE Raise("TypeError")

\* l ** r on ints and floats n/d with an int exponent
PyPow(l, r) ==
    IF ~IsIntLike(r) THEN Unmodelled
    ELSE IF (Abs(l.n) > 1 \/ FDen(l) > 1) /\ (Abs(r.n) > 8 \/ Abs(l.n) > 10 \/ FDen(l) > 10)
    THEN Unmodelled                                  \* beyond the integers of the model
    ELSE IF Abs(r.n) > 99 THEN Unmodelled
    ELSE IF r.n >= 0
    THEN IF IsIntLike(l) THEN MkInt(IntPow(l.n, r.n))
         ELSE MkFloat(IntPow(l.n, r.n), IntPow(FDen(l), r.n))
    ELSE IF l.n = 0 THEN Raise("ZeroDivisionError")
    ELSE MkFloat(IntPow(FDen(ToFloat(l)), -r.n), IntPow(l.n, -r.n))

\* l o r on two ints (bools count as ints)
IntOp(o, l, r) ==
    CASE o = <<"+">> -> MkInt(l + r)
      [] o = <<"-">> -> MkInt(l - r)
      [] o = <<"*">> -> MkInt(l * r)
      [] o = <<"/">> -> IF r = 0 THEN Raise("ZeroDivisionError") ELSE MkFloat(l, r)
      [] o = <<"/", "/">> -> IF r = 0 THEN Raise("ZeroDivisionError") ELSE MkInt(PyFloorDiv(l, r))
      [] o = <<"%">> -> IF r = 0 THEN Raise("ZeroDivisionError") ELSE MkInt(PyMod(l, r))
      [] o = <<"<", "<">> -> IF r < 0 THEN Raise("ValueError")
                             ELSE IF r > 16 THEN Unmodelled ELSE MkInt(l * IntPow(2, r))

\* l o r on two floats (an int operand converted)
FloatOp(o, l, r) ==
    CASE o = <<"+">> -> FAdd(l, r)
      [] o = <<"-">> -> FSub(l, r)
      [] o = <<"*">> -> FMul(l, r)
      [] o = <<"/">> -> IF FIsZero(r) THEN Raise("ZeroDivisionError") ELSE FDiv(l, r)
      [] o = <<"/", "/">> ->
            IF FIsZero(r) THEN Raise("ZeroDivisionError")
            ELSE MkFloat(PyFloorDiv(l.n * FDen(r), r.n * FDen(l)), 1)
      [] o = <<"%">> -> IF FIsZero(r) THEN Raise("ZeroDivisionError") ELSE FMod(l, r)
      [] o = <<"<", "<">> -> Raise("TypeError")

IsSequence(v) == v.k \in {"str", "tuple", "list"}

\* l o r, both operands evaluated
BinOp(o, l, r) ==
    IF IsNumber(l) /\ IsNumber(r)
    THEN IF ~(IsExact(l) /\ IsExact(r)) THEN Unmodelled
         ELSE IF o = <<"*", "*">> THEN PyPow(l, r)
         ELSE IF IsIntLike(l) /\ IsIntLike(r) THEN IntOp(o, l.n, r.n)
         ELSE FloatOp(o, ToFloat(l), ToFloat(r))
    ELSE IF o = <<"+">> /\ l.k = r.k /\ IsSequence(l)
    THEN [l EXCEPT !.s = l.s \o r.s, !.items = l.items \o r.items]
    ELSE IF o = <<"*">> /\ ((IsSequence(l) /\ IsIntLike(r)) \/ (IsIntLike(l) /\ IsSequence(r)))
    THEN Unmodelled                                  \* repetition of a sequence
    ELSE IF o = <<"%">> /\ l.k = "str" THEN Unmodelled   \* string formatting
    ELSE Raise("TypeError")

\* l < r, both operands evaluated
Less(l, r) ==
    IF IsNumber(l) /\ IsNumber(r)
    THEN IF IsExact(l) /\ IsExact(r) THEN MkBool(FLess(ToFloat(l), ToFloat(r))) ELSE Unmodelled
    ELSE IF l.k = r.k /\ IsSequence(l) THEN Unmodelled   \* lexicographic order
    ELSE Raise("TypeError")

RECURSIVE Factorial(_)
Factorial(n) == IF n <= 1 THEN 1 ELSE n * Factorial(n - 1)

\* math.factorial(x); floats are accepted or refused depending on the Python version
MathFactorial(x) ==
    IF IsIntLike(x)
    THEN IF x.n < 0 THEN Raise("ValueError")
         ELSE IF x.n > 12 THEN Unmodelled ELSE MkInt(Factorial(x.n))
    ELSE IF IsNumber(x) THEN Unmodelled
    ELSE Raise("TypeError")

(***************************************************************************)
(* The math library.  MathTable and IrrTable hold what the library returns *)
(* on the arguments the model reaches: <<function, argument, result>> and  *)
(* <<repr of |x|, f"{|x|:.10g}", whether |x| < 1e-10>> for the floats that  *)
(* are not held as n/d.                                                    *)
(***************************************************************************)
\* ---- expressions of the examples and of each kind of value ----
Samples ==
    { <<"2", "+", "3", "*", "4">>,
      <<"1", "0", "/", "0">>,
      <<"(">>,
      <<"s", "i", "n", "(", "9", "0", ")">>,
      <<"s", "i", "n", "(", "0", ")">>,
      <<"s", "i", "n", "(", "1", "8", "0", ")">>,
      <<"1", "+", "1">>,
      <<"7", "-", "2">>,
      <<"2", "*", "3">>,
      <<"2", "U+00D7", "3">>,
      <<"2", "^", "3">>,
      <<"2", "^", "-", "1">>,
      <<"0", "^", "-", "1">>,
      <<"1", ".", "5", "+", "1">>,
      <<"1", "0", "U+00F7", "4">>,
      <<"1", "U+00F7", "3">>,
      <<"2", "U+00F7", "3">>,
      <<"0", ".", "1">>,
      <<"1", ".">>,
      <<".", "5">>,
      <<"-", "1">>,
      <<"-", "-", "1">>,
      <<"+", "1">>,
      <<"1", " ", "+", " ", "1">>,
      <<"0", "1">>,
      <<"1", "e">>,
      <<"9", ")">>,
      <<"1", "+">>,
      <<"f", "o", "o">>,
      <<"f", "o", "o", "(", "1", ")">>,
      <<"1", "(", "2", ")">>,
      <<"1", ",", "2">>,
      <<"1", ",">>,
      <<"(", "1", ",", "2", ")">>,
      <<"(", ")">>,
      <<"1", "<", "2">>,
      <<"2", "<", "1">>,
      <<"1", "<", "2", "<", "3">>,
      <<"1", "<", "<", "2">>,
      <<"5", "%", "2">>,
      <<"5", "%", "0">>,
      <<"-", "7", "%", "3">>,
      <<"7", "/", "/", "2">>,
      <<"1", "/", "/", "0">>,
      <<"[", "1", "]">>,
      <<"[", "]">>,
      <<"[", "1", ",", "2", "]">>,
      <<"'", "a", "'">>,
      <<"'", "'">>,
      <<"'", "a", "'", "+", "'", "b", "'">>,
      <<"'", "1", "'", "+", "1">>,
      <<"s", "q", "r", "t">>,
      <<"a", "b", "s">>,
      <<"f", "a", "c", "t">>,
      <<"l", "o", "g">>,
      <<"l", "n">>,
      <<"e", "x", "p">>,
      <<"s", "i", "n">>,
      <<"c", "o", "s">>,
      <<"t", "a", "n">>,
      <<"a", "s", "i", "n">>,
      <<"a", "c", "o", "s">>,
      <<"a", "t", "a", "n">>,
      <<"p", "i">>,
      <<"e">>,
      <<"-", "p", "i">>,
      <<"-", "e">>,
      <<"a", "b", "s", "(", "p", "i", ")">>,
      <<"a", "b", "s", "(", "-", "e", ")">>,
      <<"p", "i", ",", "e">>,
      <<"s", "q", "r", "t", "(", "4", ")">>,
      <<"U+221A", "(", "4", ")">>,
      <<"U+221A", "4">>,
      <<"s", "q", "r", "t", "(", "2", ")">>,
      <<"s", "q", "r", "t", "(", "-", "1", ")">>,
      <<"s", "q", "r", "t", "(", "0", ")">>,
      <<"s", "q", "r", "t", "(", "0", ".", "2", "5", ")">>,
      <<"l", "o", "g", "(", "1", "0", "0", ")">>,
      <<"l", "o", "g", "(", "1", ")">>,
      <<"l", "o", "g", "(", "0", ")">>,
      <<"l", "o", "g", "(", "2", ")">>,
      <<"l", "n", "(", "e", ")">>,
      <<"l", "n", "(", "1", ")">>,
      <<"l", "n", "(", "0", ")">>,
      <<"l", "n", "(", "2", ")">>,
      <<"e", "x", "p", "(", "0", ")">>,
      <<"e", "x", "p", "(", "1", ")">>,
      <<"e", "x", "p", "(", "-", "1", ")">>,
      <<"a", "b", "s", "(", "-", "1", ")">>,
      <<"a", "b", "s", "(", "1", ".", "5", ")">>,
      <<"a", "b", "s", "(", "0", ")">>,
      <<"a", "b", "s", "(", "'", "a", "'", ")">>,
      <<"f", "a", "c", "t", "(", "3", ")">>,
      <<"f", "a", "c", "t", "(", "0", ")">>,
      <<"f", "a", "c", "t", "(", "5", ")">>,
      <<"f", "a", "c", "t", "(", "-", "1", ")">>,
      <<"f", "a", "c", "t", "(", "'", "a", "'", ")">>,
      <<"s", "i", "n", "(", "3", "0", ")">>,
      <<"s", "i", "n", "(", "1", ")">>,
      <<"s", "i", "n", "(", "-", "9", "0", ")">>,
      <<"c", "o", "s", "(", "0", ")">>,
      <<"c", "o", "s", "(", "6", "0", ")">>,
      <<"c", "o", "s", "(", "9", "0", ")">>,
      <<"c", "o", "s", "(", "1", "8", "0", ")">>,
      <<"c", "o", "s", "(", "1", ")">>,
      <<"t", "a", "n", "(", "4", "5", ")">>,
      <<"t", "a", "n", "(", "0", ")">>,
      <<"t", "a", "n", "(", "1", ")">>,
      <<"t", "a", "n", "(", "9", "0", ")">>,
      <<"a", "s", "i", "n", "(", "1", ")">>,
      <<"a", "s", "i", "n", "(", "0", ")">>,
      <<"a", "s", "i", "n", "(", "-", "1", ")">>,
      <<"a", "s", "i", "n", "(", "2", ")">>,
      <<"a", "s", "i", "n", "(", "0", ".", "5", ")">>,
      <<"a", "c", "o", "s", "(", "1", ")">>,
      <<"a", "c", "o", "s", "(", "0", ")">>,
      <<"a", "c", "o", "s", "(", "2", ")">>,
      <<"a", "c", "o", "s", "(", "0", ".", "5", ")">>,
      <<"a", "t", "a", "n", "(", "1", ")">>,
      <<"a", "t", "a", "n", "(", "0", ")">>,
      <<"a", "t", "a", "n", "(", "-", "1", ")">>,
      <<"a", "s", "i", "n", "(", "s", "i", "n", "(", "9", "0", ")", ")">>,
      <<"a", "s", "i", "n", "(", "s", "i", "n", "(", "1", ")", ")">>,
      <<"s", "i", "n", "(", "a", "s", "i", "n", "(", "1", ")", ")">>,
      <<"a", "c", "o", "s", "(", "c", "o", "s", "(", "0", ")", ")">>,
      <<"a", "c", "o", "s", "(", "c", "o", "s", "(", "6", "0", ")", ")">>,
      <<"a", "t", "a", "n", "(", "t", "a", "n", "(", "4", "5", ")", ")">>,
      <<"c", "o", "s", "(", "a", "s", "i", "n", "(", "1", ")", ")">>,
      <<"a", "t", "a", "n", "(", "s", "i", "n", "(", "9", "0", ")", ")">>,
      <<"a", "s", "i", "n", "(", "c", "o", "s", "(", "0", ")", ")">>,
      <<"s", "i", "n", "(", "p", "i", ")">>,
      <<"c", "o", "s", "(", "p", "i", ")">>,
      <<"s", "i", "n", "(", "e", ")">>,
      <<"s", "i", "n", "(", "1", ",", ")">>,
      <<"s", "i", "n", "(", "1", ",", "2", ")">>,
      <<"s", "i", "n", "(", ")">>,
      <<"s", "i", "n", "(", "'", "a", "'", ")">>,
      <<"a", "s", "i", "n", "(", "'", "a", "'", ")">>,
      <<"s", "i", "n", "(", "f", "o", "o", ")">>,
      <<"s", "q", "r", "t", "(", "s", "i", "n", "(", "9", "0", ")", ")">>,
      <<"s", "q", "r", "t", "(", "a", "s", "i", "n", "(", "1", ")", ")">>,
      <<"a", "b", "s", "(", "s", "i", "n", "(", "-", "9", "0", ")", ")">>,
      <<"a", "b", "s", "(", "a", "s", "i", "n", "(", "-", "1", ")", ")">>,
      <<"e", "x", "p", "(", "s", "i", "n", "(", "0", ")", ")">>,
      <<"l", "o", "g", "(", "a", "s", "i", "n", "(", "1", ")", ")">>,
      <<"s", "i", "n", "(", "s", "q", "r", "t", "(", "4", ")", ")">>,
      <<"a", "s", "i", "n", "(", "s", "q", "r", "t", "(", "1", ")", ")">>,
      <<"s", "i", "n", "(", "9", "0", ")", ",", "a", "s", "i", "n", "(", "1", ")">>,
      <<"A">>,
      <<"E">>,
      <<"E", "r", "r", "o", "r">>,
      <<"1", "%">>,
      <<"%">>,
      <<"<">>,
      <<"[">>,
      <<"'">>,
      <<"1", "'">>,
      <<"a", "%", "b">>,
      <<"1", "<">>,
      <<"1", " ", "<", " ", "2">>,
      <<"(", "1", "<", "2", ")">>,
      <<"1", "%", "1">>,
      <<"3", "%", "2">> }

\* ---- values of the math library ----
MathTable ==
    { <<"acos", FZero(FALSE), Val("irr", 1, 1, <<"1.5707963267948966">>, <<>>)>>,
      <<"acos", MkFloat(1, 1), FZero(FALSE)>>,
      <<"acos", MkFloat(1, 2), Val("irr", 1, 1, <<"1.0471975511965979">>, <<>>)>>,
      <<"acos", MkFloat(2, 1), Raise("ValueError")>>,
      <<"acos", Val("irr", -1, 1, <<"0.9524129804151563">>, <<>>), Val("irr", 1, 1, <<"2.831853071795865">>, <<>>)>>,
      <<"acos", Val("irr", 1, 1, <<"0.5000000000000001">>, <<>>), Val("irr", 1, 1, <<"1.0471975511965976">>, <<>>)>>,
      <<"asin", FZero(FALSE), FZero(FALSE)>>,
      <<"asin", MkFloat(-1, 1), Val("irr", -1, 1, <<"1.5707963267948966">>, <<>>)>>,
      <<"asin", MkFloat(1, 1), Val("irr", 1, 1, <<"1.5707963267948966">>, <<>>)>>,
      <<"asin", MkFloat(1, 2), Val("irr", 1, 1, <<"0.5235987755982989">>, <<>>)>>,
      <<"asin", MkFloat(2, 1), Raise("ValueError")>>,
      <<"asin", Val("irr", 1, 1, <<"0.01745240643728351">>, <<>>), Val("irr", 1, 1, <<"0.017453292519943295">>, <<>>)>>,
      <<"asin", Val("irr", 1, 1, <<"0.8414709848078965">>, <<>>), MkFloat(1, 1)>>,
      <<"asin", Val("irr", 1, 1, <<"0.8939966636005579">>, <<>>), Val("irr", 1, 1, <<"1.106186954104004">>, <<>>)>>,
      <<"atan", FZero(FALSE), FZero(FALSE)>>,
      <<"atan", MkFloat(-1, 1), Val("irr", -1, 1, <<"0.7853981633974483">>, <<>>)>>,
      <<"atan", MkFloat(1, 1), Val("irr", 1, 1, <<"0.7853981633974483">>, <<>>)>>,
      <<"atan", Val("irr", 1, 1, <<"0.8939966636005579">>, <<>>), Val("irr", 1, 1, <<"0.7294884231636801">>, <<>>)>>,
      <<"atan", Val("irr", 1, 1, <<"0.9999999999999999">>, <<>>), Val("irr", 1, 1, <<"0.7853981633974483">>, <<>>)>>,
      <<"atan", Val("irr", 1, 1, <<"1.6197751905438615">>, <<>>), Val("irr", 1, 1, <<"1.0177028497428946">>, <<>>)>>,
      <<"cos", FZero(FALSE), MkFloat(1, 1)>>,
      <<"cos", MkFloat(1, 1), Val("irr", 1, 1, <<"0.5403023058681398">>, <<>>)>>,
      <<"cos", MkFloat(180, 1), Val("irr", -1, 1, <<"0.5984600690578581">>, <<>>)>>,
      <<"cos", MkFloat(60, 1), Val("irr", -1, 1, <<"0.9524129804151563">>, <<>>)>>,
      <<"cos", MkFloat(90, 1), Val("irr", -1, 1, <<"0.4480736161291701">>, <<>>)>>,
      <<"cos", Val("irr", 1, 1, <<"0.017453292519943295">>, <<>>), Val("irr", 1, 1, <<"0.9998476951563913">>, <<>>)>>,
      <<"cos", Val("irr", 1, 1, <<"0.027415567780803774">>, <<>>), Val("irr", 1, 1, <<"0.9996242168594817">>, <<>>)>>,
      <<"cos", Val("irr", 1, 1, <<"0.05483113556160755">>, <<>>), Val("irr", 1, 1, <<"0.9984971498638638">>, <<>>)>>,
      <<"cos", Val("irr", 1, 1, <<"1.0471975511965976">>, <<>>), Val("irr", 1, 1, <<"0.5000000000000001">>, <<>>)>>,
      <<"cos", Val("irr", 1, 1, <<"1.5707963267948966">>, <<>>), Val("irr", 1, 1, <<"6.123233995736766e-17">>, <<>>)>>,
      <<"cos", Val("irr", 1, 1, <<"3.141592653589793">>, <<>>), MkFloat(-1, 1)>>,
      <<"degrees", FZero(FALSE), FZero(FALSE)>>,
      <<"degrees", MkFloat(1, 1), Val("irr", 1, 1, <<"57.29577951308232">>, <<>>)>>,
      <<"degrees", Val("irr", -1, 1, <<"0.7853981633974483">>, <<>>), MkFloat(-45, 1)>>,
      <<"degrees", Val("irr", -1, 1, <<"1.5707963267948966">>, <<>>), MkFloat(-90, 1)>>,
      <<"degrees", Val("irr", 1, 1, <<"0.017453292519943295">>, <<>>), MkFloat(1, 1)>>,
      <<"degrees", Val("irr", 1, 1, <<"0.5235987755982989">>, <<>>), Val("irr", 1, 1, <<"30.000000000000004">>, <<>>)>>,
      <<"degrees", Val("irr", 1, 1, <<"0.7294884231636801">>, <<>>), Val("irr", 1, 1, <<"41.79660785093231">>, <<>>)>>,
      <<"degrees", Val("irr", 1, 1, <<"0.7853981633974483">>, <<>>), MkFloat(45, 1)>>,
      <<"degrees", Val("irr", 1, 1, <<"1.0177028497428946">>, <<>>), Val("irr", 1, 1, <<"58.31007808870444">>, <<>>)>>,
      <<"degrees", Val("irr", 1, 1, <<"1.0471975511965976">>, <<>>), Val("irr", 1, 1, <<"59.99999999999999">>, <<>>)>>,
      <<"degrees", Val("irr", 1, 1, <<"1.0471975511965979">>, <<>>), Val("irr", 1, 1, <<"60.00000000000001">>, <<>>)>>,
      <<"degrees", Val("irr", 1, 1, <<"1.106186954104004">>, <<>>), Val("irr", 1, 1, <<"63.37984382259112">>, <<>>)>>,
      <<"degrees", Val("irr", 1, 1, <<"1.5707963267948966">>, <<>>), MkFloat(90, 1)>>,
      <<"degrees", Val("irr", 1, 1, <<"2.831853071795865">>, <<>>), Val("irr", 1, 1, <<"162.25322921506077">>, <<>>)>>,
      <<"exp", FZero(FALSE), MkFloat(1, 1)>>,
      <<"exp", MkFloat(-1, 1), Val("irr", 1, 1, <<"0.36787944117144233">>, <<>>)>>,
      <<"exp", MkFloat(1, 1), Val("irr", 1, 1, <<"2.718281828459045">>, <<>>)>>,
      <<"log", FZero(FALSE), Raise("ValueError")>>,
      <<"log", MkFloat(1, 1), FZero(FALSE)>>,
      <<"log", MkFloat(2, 1), Val("irr", 1, 1, <<"0.6931471805599453">>, <<>>)>>,
      <<"log", Val("irr", 1, 1, <<"2.718281828459045">>, <<>>), MkFloat(1, 1)>>,
      <<"log10", FZero(FALSE), Raise("ValueError")>>,
      <<"log10", MkFloat(1, 1), FZero(FALSE)>>,
      <<"log10", MkFloat(100, 1), MkFloat(2, 1)>>,
      <<"log10", MkFloat(2, 1), Val("irr", 1, 1, <<"0.3010299956639812">>, <<>>)>>,
      <<"log10", MkFloat(90, 1), Val("irr", 1, 1, <<"1.9542425094393248">>, <<>>)>>,
      <<"log10", Val("irr", 1, 1, <<"1.5707963267948966">>, <<>>), Val("irr", 1, 1, <<"0.19611987703015263">>, <<>>)>>,
      <<"radians", FZero(FALSE), FZero(FALSE)>>,
      <<"radians", MkFloat(-90, 1), Val("irr", -1, 1, <<"1.5707963267948966">>, <<>>)>>,
      <<"radians", MkFloat(1, 1), Val("irr", 1, 1, <<"0.017453292519943295">>, <<>>)>>,
      <<"radians", MkFloat(180, 1), Val("irr", 1, 1, <<"3.141592653589793">>, <<>>)>>,
      <<"radians", MkFloat(2, 1), Val("irr", 1, 1, <<"0.03490658503988659">>, <<>>)>>,
      <<"radians", MkFloat(30, 1), Val("irr", 1, 1, <<"0.5235987755982988">>, <<>>)>>,
      <<"radians", MkFloat(45, 1), Val("irr", 1, 1, <<"0.7853981633974483">>, <<>>)>>,
      <<"radians", MkFloat(60, 1), Val("irr", 1, 1, <<"1.0471975511965976">>, <<>>)>>,
      <<"radians", MkFloat(90, 1), Val("irr", 1, 1, <<"1.5707963267948966">>, <<>>)>>,
      <<"radians", Val("irr", 1, 1, <<"1.5707963267948966">>, <<>>), Val("irr", 1, 1, <<"0.027415567780803774">>, <<>>)>>,
      <<"radians", Val("irr", 1, 1, <<"2.718281828459045">>, <<>>), Val("irr", 1, 1, <<"0.047442967903742035">>, <<>>)>>,
      <<"radians", Val("irr", 1, 1, <<"3.141592653589793">>, <<>>), Val("irr", 1, 1, <<"0.05483113556160755">>, <<>>)>>,
      <<"sin", FZero(FALSE), FZero(FALSE)>>,
      <<"sin", MkFloat(-90, 1), Val("irr", -1, 1, <<"0.8939966636005579">>, <<>>)>>,
      <<"sin", MkFloat(1, 1), Val("irr", 1, 1, <<"0.8414709848078965">>, <<>>)>>,
      <<"sin", MkFloat(180, 1), Val("irr", -1, 1, <<"0.8011526357338304">>, <<>>)>>,
      <<"sin", MkFloat(2, 1), Val("irr", 1, 1, <<"0.9092974268256817">>, <<>>)>>,
      <<"sin", MkFloat(30, 1), Val("irr", -1, 1, <<"0.9880316240928618">>, <<>>)>>,
      <<"sin", MkFloat(90, 1), Val("irr", 1, 1, <<"0.8939966636005579">>, <<>>)>>,
      <<"sin", Val("irr", -1, 1, <<"1.5707963267948966">>, <<>>), MkFloat(-1, 1)>>,
      <<"sin", Val("irr", 1, 1, <<"0.017453292519943295">>, <<>>), Val("irr", 1, 1, <<"0.01745240643728351">>, <<>>)>>,
      <<"sin", Val("irr", 1, 1, <<"0.027415567780803774">>, <<>>), Val("irr", 1, 1, <<"0.027412133592044294">>, <<>>)>>,
      <<"sin", Val("irr", 1, 1, <<"0.03490658503988659">>, <<>>), Val("irr", 1, 1, <<"0.03489949670250097">>, <<>>)>>,
      <<"sin", Val("irr", 1, 1, <<"0.047442967903742035">>, <<>>), Val("irr", 1, 1, <<"0.047425172189568265">>, <<>>)>>,
      <<"sin", Val("irr", 1, 1, <<"0.05483113556160755">>, <<>>), Val("irr", 1, 1, <<"0.05480366514878953">>, <<>>)>>,
      <<"sin", Val("irr", 1, 1, <<"0.5235987755982988">>, <<>>), Val("irr", 1, 1, <<"0.49999999999999994">>, <<>>)>>,
      <<"sin", Val("irr", 1, 1, <<"1.5707963267948966">>, <<>>), MkFloat(1, 1)>>,
      <<"sin", Val("irr", 1, 1, <<"2.718281828459045">>, <<>>), Val("irr", 1, 1, <<"0.41078129050290885">>, <<>>)>>,
      <<"sin", Val("irr", 1, 1, <<"3.141592653589793">>, <<>>), Val("irr", 1, 1, <<"1.2246467991473532e-16">>, <<>>)>>,
      <<"sqrt", FZero(FALSE), FZero(FALSE)>>,
      <<"sqrt", MkFloat(-1, 1), Raise("ValueError")>>,
      <<"sqrt", MkFloat(1, 1), MkFloat(1, 1)>>,
      <<"sqrt", MkFloat(1, 4), MkFloat(1, 2)>>,
      <<"sqrt", MkFloat(2, 1), Val("irr", 1, 1, <<"1.4142135623730951">>, <<>>)>>,
      <<"sqrt", MkFloat(4, 1), MkFloat(2, 1)>>,
      <<"sqrt", MkFloat(90, 1), Val("irr", 1, 1, <<"9.486832980505138">>, <<>>)>>,
      <<"sqrt", Val("irr", 1, 1, <<"0.8939966636005579">>, <<>>), Val("irr", 1, 1, <<"0.945513967956348">>, <<>>)>>,
      <<"sqrt", Val("irr", 1, 1, <<"1.5707963267948966">>, <<>>), Val("irr", 1, 1, <<"1.2533141373155001">>, <<>>)>>,
      <<"tan", FZero(FALSE), FZero(FALSE)>>,
      <<"tan", MkFloat(1, 1), Val("irr", 1, 1, <<"1.5574077246549023">>, <<>>)>>,
      <<"tan", MkFloat(45, 1), Val("irr", 1, 1, <<"1.6197751905438615">>, <<>>)>>,
      <<"tan", MkFloat(90, 1), Val("irr", -1, 1, <<"1.995200412208242">>, <<>>)>>,
      <<"tan", Val("irr", 1, 1, <<"0.017453292519943295">>, <<>>), Val("irr", 1, 1, <<"0.017455064928217585">>, <<>>)>>,
      <<"tan", Val("irr", 1, 1, <<"0.7853981633974483">>, <<>>), Val("irr", 1, 1, <<"0.9999999999999999">>, <<>>)>>,
      <<"tan", Val("irr", 1, 1, <<"1.5707963267948966">>, <<>>), Val("irr", 1, 1, <<"1.633123935319537e+16">>, <<>>)>> }

\* <<repr(x), its characters, the characters of f"{x:.10g}", x < 1e-10>>, x > 0
IrrTable ==
    { <<"6.123233995736766e-17", <<"6", ".", "1", "2", "3", "2", "3", "3", "9", "9", "5", "7", "3", "6", "7", "6", "6", "e", "-", "1", "7">>, <<"6", ".", "1", "2", "3", "2", "3", "3", "9", "9", "6", "e", "-", "1", "7">>, TRUE>>,
      <<"1.2246467991473532e-16", <<"1", ".", "2", "2", "4", "6", "4", "6", "7", "9", "9", "1", "4", "7", "3", "5", "3", "2", "e", "-", "1", "6">>, <<"1", ".", "2", "2", "4", "6", "4", "6", "7", "9", "9", "e", "-", "1", "6">>, TRUE>>,
      <<"0.01745240643728351", <<"0", ".", "0", "1", "7", "4", "5", "2", "4", "0", "6", "4", "3", "7", "2", "8", "3", "5", "1">>, <<"0", ".", "0", "1", "7", "4", "5", "2", "4", "0", "6", "4", "4">>, FALSE>>,
      <<"0.017453292519943295", <<"0", ".", "0", "1", "7", "4", "5", "3", "2", "9", "2", "5", "1", "9", "9", "4", "3", "2", "9", "5">>, <<"0", ".", "0", "1", "7", "4", "5", "3", "2", "9", "2", "5", "2">>, FALSE>>,
      <<"0.017455064928217585", <<"0", ".", "0", "1", "7", "4", "5", "5", "0", "6", "4", "9", "2", "8", "2", "1", "7", "5", "8", "5">>, <<"0", ".", "0", "1", "7", "4", "5", "5", "0", "6", "4", "9", "3">>, FALSE>>,
      <<"0.027412133592044294", <<"0", ".", "0", "2", "7", "4", "1", "2", "1", "3", "3", "5", "9", "2", "0", "4", "4", "2", "9", "4">>, <<"0", ".", "0", "2", "7", "4", "1", "2", "1", "3", "3", "5", "9">>, FALSE>>,
      <<"0.027415567780803774", <<"0", ".", "0", "2", "7", "4", "1", "5", "5", "6", "7", "7", "8", "0", "8", "0", "3", "7", "7", "4">>, <<"0", ".", "0", "2", "7", "4", "1", "5", "5", "6", "7", "7", "8">>, FALSE>>,
      <<"0.03489949670250097", <<"0", ".", "0", "3", "4", "8", "9", "9", "4", "9", "6", "7", "0", "2", "5", "0", "0", "9", "7">>, <<"0", ".", "0", "3", "4", "8", "9", "9", "4", "9", "6", "7">>, FALSE>>,
      <<"0.03490658503988659", <<"0", ".", "0", "3", "4", "9", "0", "6", "5", "8", "5", "0", "3", "9", "8", "8", "6", "5", "9">>, <<"0", ".", "0", "3", "4", "9", "0", "6", "5", "8", "5", "0", "4">>, FALSE>>,
      <<"0.047425172189568265", <<"0", ".", "0", "4", "7", "4", "2", "5", "1", "7", "2", "1", "8", "9", "5", "6", "8", "2", "6", "5">>, <<"0", ".", "0", "4", "7", "4", "2", "5", "1", "7", "2", "1", "9">>, FALSE>>,
      <<"0.047442967903742035", <<"0", ".", "0", "4", "7", "4", "4", "2", "9", "6", "7", "9", "0", "3", "7", "4", "2", "0", "3", "5">>, <<"0", ".", "0", "4", "7", "4", "4", "2", "9", "6", "7", "9">>, FALSE>>,
      <<"0.05480366514878953", <<"0", ".", "0", "5", "4", "8", "0", "3", "6", "6", "5", "1", "4", "8", "7", "8", "9", "5", "3">>, <<"0", ".", "0", "5", "4", "8", "0", "3", "6", "6", "5", "1", "5">>, FALSE>>,
      <<"0.05483113556160755", <<"0", ".", "0", "5", "4", "8", "3", "1", "1", "3", "5", "5", "6", "1", "6", "0", "7", "5", "5">>, <<"0", ".", "0", "5", "4", "8", "3", "1", "1", "3", "5", "5", "6">>, FALSE>>,
      <<"0.19611987703015263", <<"0", ".", "1", "9", "6", "1", "1", "9", "8", "7", "7", "0", "3", "0", "1", "5", "2", "6", "3">>, <<"0", ".", "1", "9", "6", "1", "1", "9", "8", "7", "7">>, FALSE>>,
      <<"0.3010299956639812", <<"0", ".", "3", "0", "1", "0", "2", "9", "9", "9", "5", "6", "6", "3", "9", "8", "1", "2">>, <<"0", ".", "3", "0", "1", "0", "2", "9", "9", "9", "5", "7">>, FALSE>>,
      <<"0.36787944117144233", <<"0", ".", "3", "6", "7", "8", "7", "9", "4", "4", "1", "1", "7", "1", "4", "4", "2", "3", "3">>, <<"0", ".", "3", "6", "7", "8", "7", "9", "4", "4", "1", "2">>, FALSE>>,
      <<"0.41078129050290885", <<"0", ".", "4", "1", "0", "7", "8", "1", "2", "9", "0", "5", "0", "2", "9", "0", "8", "8", "5">>, <<"0", ".", "4", "1", "0", "7", "8", "1", "2", "9", "0", "5">>, FALSE>>,
      <<"0.4480736161291701", <<"0", ".", "4", "4", "8", "0", "7", "3", "6", "1", "6", "1", "2", "9", "1", "7", "0", "1">>, <<"0", ".", "4", "4", "8", "0", "7", "3", "6", "1", "6", "1">>, FALSE>>,
      <<"0.49999999999999994", <<"0", ".", "4", "9", "9", "9", "9", "9", "9", "9", "9", "9", "9", "9", "9", "9", "9", "9", "4">>, <<"0", ".", "5">>, FALSE>>,
      <<"0.5000000000000001", <<"0", ".", "5", "0", "0", "0", "0", "0", "0", "0", "0", "0", "0", "0", "0", "0", "0", "1">>, <<"0", ".", "5">>, FALSE>>,
      <<"0.5235987755982988", <<"0", ".", "5", "2", "3", "5", "9", "8", "7", "7", "5", "5", "9", "8", "2", "9", "8", "8">>, <<"0", ".", "5", "2", "3", "5", "9", "8", "7", "7", "5", "6">>, FALSE>>,
      <<"0.5235987755982989", <<"0", ".", "5", "2", "3", "5", "9", "8", "7", "7", "5", "5", "9", "8", "2", "9", "8", "9">>, <<"0", ".", "5", "2", "3", "5", "9", "8", "7", "7", "5", "6">>, FALSE>>,
      <<"0.5403023058681398", <<"0", ".", "5", "4", "0", "3", "0", "2", "3", "0", "5", "8", "6", "8", "1", "3", "9", "8">>, <<"0", ".", "5", "4", "0", "3", "0", "2", "3", "0", "5", "9">>, FALSE>>,
      <<"0.5984600690578581", <<"0", ".", "5", "9", "8", "4", "6", "0", "0", "6", "9", "0", "5", "7", "8", "5", "8", "1">>, <<"0", ".", "5", "9", "8", "4", "6", "0", "0", "6", "9", "1">>, FALSE>>,
      <<"0.6931471805599453", <<"0", ".", "6", "9", "3", "1", "4", "7", "1", "8", "0", "5", "5", "9", "9", "4", "5", "3">>, <<"0", ".", "6", "9", "3", "1", "4", "7", "1", "8", "0", "6">>, FALSE>>,
      <<"0.7294884231636801", <<"0", ".", "7", "2", "9", "4", "8", "8", "4", "2", "3", "1", "6", "3", "6", "8", "0", "1">>, <<"0", ".", "7", "2", "9", "4", "8", "8", "4", "2", "3", "2">>, FALSE>>,
      <<"0.7853981633974483", <<"0", ".", "7", "8", "5", "3", "9", "8", "1", "6", "3", "3", "9", "7", "4", "4", "8", "3">>, <<"0", ".", "7", "8", "5", "3", "9", "8", "1", "6", "3", "4">>, FALSE>>,
      <<"0.8011526357338304", <<"0", ".", "8", "0", "1", "1", "5", "2", "6", "3", "5", "7", "3", "3", "8", "3", "0", "4">>, <<"0", ".", "8", "0", "1", "1", "5", "2", "6", "3", "5", "7">>, FALSE>>,
      <<"0.8414709848078965", <<"0", ".", "8", "4", "1", "4", "7", "0", "9", "8", "4", "8", "0", "7", "8", "9", "6", "5">>, <<"0", ".", "8", "4", "1", "4", "7", "0", "9", "8", "4", "8">>, FALSE>>,
      <<"0.8939966636005579", <<"0", ".", "8", "9", "3", "9", "9", "6", "6", "6", "3", "6", "0", "0", "5", "5", "7", "9">>, <<"0", ".", "8", "9", "3", "9", "9", "6", "6", "6", "3", "6">>, FALSE>>,
      <<"0.9092974268256817", <<"0", ".", "9", "0", "9", "2", "9", "7", "4", "2", "6", "8", "2", "5", "6", "8", "1", "7">>, <<"0", ".", "9", "0", "9", "2", "9", "7", "4", "2", "6", "8">>, FALSE>>,
      <<"0.945513967956348", <<"0", ".", "9", "4", "5", "5", "1", "3", "9", "6", "7", "9", "5", "6", "3", "4", "8">>, <<"0", ".", "9", "4", "5", "5", "1", "3", "9", "6", "8">>, FALSE>>,
      <<"0.9524129804151563", <<"0", ".", "9", "5", "2", "4", "1", "2", "9", "8", "0", "4", "1", "5", "1", "5", "6", "3">>, <<"0", ".", "9", "5", "2", "4", "1", "2", "9", "8", "0", "4">>, FALSE>>,
      <<"0.9880316240928618", <<"0", ".", "9", "8", "8", "0", "3", "1", "6", "2", "4", "0", "9", "2", "8", "6", "1", "8">>, <<"0", ".", "9", "8", "8", "0", "3", "1", "6", "2", "4", "1">>, FALSE>>,
      <<"0.9984971498638638", <<"0", ".", "9", "9", "8", "4", "9", "7", "1", "4", "9", "8", "6", "3", "8", "6", "3", "8">>, <<"0", ".", "9", "9", "8", "4", "9", "7", "1", "4", "9", "9">>, FALSE>>,
      <<"0.9996242168594817", <<"0", ".", "9", "9", "9", "6", "2", "4", "2", "1", "6", "8", "5", "9", "4", "8", "1", "7">>, <<"0", ".", "9", "9", "9", "6", "2", "4", "2", "1", "6", "9">>, FALSE>>,
      <<"0.9998476951563913", <<"0", ".", "9", "9", "9", "8", "4", "7", "6", "9", "5", "1", "5", "6", "3", "9", "1", "3">>, <<"0", ".", "9", "9", "9", "8", "4", "7", "6", "9", "5", "2">>, FALSE>>,
      <<"0.9999999999999999", <<"0", ".", "9", "9", "9", "9", "9", "9", "9", "9", "9", "9", "9", "9", "9", "9", "9", "9">>, <<"1">>, FALSE>>,
      <<"1.0177028497428946", <<"1", ".", "0", "1", "7", "7", "0", "2", "8", "4", "9", "7", "4", "2", "8", "9", "4", "6">>, <<"1", ".", "0", "1", "7", "7", "0", "2", "8", "5">>, FALSE>>,
      <<"1.0471975511965976", <<"1", ".", "0", "4", "7", "1", "9", "7", "5", "5", "1", "1", "9", "6", "5", "9", "7", "6">>, <<"1", ".", "0", "4", "7", "1", "9", "7", "5", "5", "1">>, FALSE>>,
      <<"1.0471975511965979", <<"1", ".", "0", "4", "7", "1", "9", "7", "5", "5", "1", "1", "9", "6", "5", "9", "7", "9">>, <<"1", ".", "0", "4", "7", "1", "9", "7", "5", "5", "1">>, FALSE>>,
      <<"1.106186954104004", <<"1", ".", "1", "0", "6", "1", "8", "6", "9", "5", "4", "1", "0", "4", "0", "0", "4">>, <<"1", ".", "1", "0", "6", "1", "8", "6", "9", "5", "4">>, FALSE>>,
      <<"1.2533141373155001", <<"1", ".", "2", "5", "3", "3", "1", "4", "1", "3", "7", "3", "1", "5", "5", "0", "0", "1">>, <<"1", ".", "2", "5", "3", "3", "1", "4", "1", "3", "7">>, FALSE>>,
      <<"1.4142135623730951", <<"1", ".", "4", "1", "4", "2", "1", "3", "5", "6", "2", "3", "7", "3", "0", "9", "5", "1">>, <<"1", ".", "4", "1", "4", "2", "1", "3", "5", "6", "2">>, FALSE>>,
      <<"1.5574077246549023", <<"1", ".", "5", "5", "7", "4", "0", "7", "7", "2", "4", "6", "5", "4", "9", "0", "2", "3">>, <<"1", ".", "5", "5", "7", "4", "0", "7", "7", "2", "5">>, FALSE>>,
      <<"1.5707963267948966", <<"1", ".", "5", "7", "0", "7", "9", "6", "3", "2", "6", "7", "9", "4", "8", "9", "6", "6">>, <<"1", ".", "5", "7", "0", "7", "9", "6", "3", "2", "7">>, FALSE>>,
      <<"1.6197751905438615", <<"1", ".", "6", "1", "9", "7", "7", "5", "1", "9", "0", "5", "4", "3", "8", "6", "1", "5">>, <<"1", ".", "6", "1", "9", "7", "7", "5", "1", "9", "1">>, FALSE>>,
      <<"1.9542425094393248", <<"1", ".", "9", "5", "4", "2", "4", "2", "5", "0", "9", "4", "3", "9", "3", "2", "4", "8">>, <<"1", ".", "9", "5", "4", "2", "4", "2", "5", "0", "9">>, FALSE>>,
      <<"1.995200412208242", <<"1", ".", "9", "9", "5", "2", "0", "0", "4", "1", "2", "2", "0", "8", "2", "4", "2">>, <<"1", ".", "9", "9", "5", "2", "0", "0", "4", "1", "2">>, FALSE>>,
      <<"2.718281828459045", <<"2", ".", "7", "1", "8", "2", "8", "1", "8", "2", "8", "4", "5", "9", "0", "4", "5">>, <<"2", ".", "7", "1", "8", "2", "8", "1", "8", "2", "8">>, FALSE>>,
      <<"2.831853071795865", <<"2", ".", "8", "3", "1", "8", "5", "3", "0", "7", "1", "7", "9", "5", "8", "6", "5">>, <<"2", ".", "8", "3", "1", "8", "5", "3", "0", "7", "2">>, FALSE>>,
      <<"3.141592653589793", <<"3", ".", "1", "4", "1", "5", "9", "2", "6", "5", "3", "5", "8", "9", "7", "9", "3">>, <<"3", ".", "1", "4", "1", "5", "9", "2", "6", "5", "4">>, FALSE>>,
      <<"9.486832980505138", <<"9", ".", "4", "8", "6", "8", "3", "2", "9", "8", "0", "5", "0", "5", "1", "3", "8">>, <<"9", ".", "4", "8", "6", "8", "3", "2", "9", "8", "1">>, FALSE>>,
      <<"30.000000000000004", <<"3", "0", ".", "0", "0", "0", "0", "0", "0", "0", "0", "0", "0", "0", "0", "0", "0", "4">>, <<"3", "0">>, FALSE>>,
      <<"41.79660785093231", <<"4", "1", ".", "7", "9", "6", "6", "0", "7", "8", "5", "0", "9", "3", "2", "3", "1">>, <<"4", "1", ".", "7", "9", "6", "6", "0", "7", "8", "5">>, FALSE>>,
      <<"57.29577951308232", <<"5", "7", ".", "2", "9", "5", "7", "7", "9", "5", "1", "3", "0", "8", "2", "3", "2">>, <<"5", "7", ".", "2", "9", "5", "7", "7", "9", "5", "1">>, FALSE>>,
      <<"58.31007808870444", <<"5", "8", ".", "3", "1", "0", "0", "7", "8", "0", "8", "8", "7", "0", "4", "4", "4">>, <<"5", "8", ".", "3", "1", "0", "0", "7", "8", "0", "9">>, FALSE>>,
      <<"59.99999999999999", <<"5", "9", ".", "9", "9", "9", "9", "9", "9", "9", "9", "9", "9", "9", "9", "9", "9">>, <<"6", "0">>, FALSE>>,
      <<"60.00000000000001", <<"6", "0", ".", "0", "0", "0", "0", "0", "0", "0", "0", "0", "0", "0", "0", "0", "1">>, <<"6", "0">>, FALSE>>,
      <<"63.37984382259112", <<"6", "3", ".", "3", "7", "9", "8", "4", "3", "8", "2", "2", "5", "9", "1", "1", "2">>, <<"6", "3", ".", "3", "7", "9", "8", "4", "3", "8", "2">>, FALSE>>,
      <<"162.25322921506077", <<"1", "6", "2", ".", "2", "5", "3", "2", "2", "9", "2", "1", "5", "0", "6", "0", "7", "7">>, <<"1", "6", "2", ".", "2", "5", "3", "2", "2", "9", "2">>, FALSE>>,
      <<"1.633123935319537e+16", <<"1", ".", "6", "3", "3", "1", "2", "3", "9", "3", "5", "3", "1", "9", "5", "3", "7", "e", "+", "1", "6">>, <<"1", ".", "6", "3", "3", "1", "2", "3", "9", "3", "5", "e", "+", "1", "6">>, FALSE>> }
\* ---- end of the values ----

\* math.<name>(x), x evaluated
MathCall(name, x) ==
    IF Stops(x) THEN x
    ELSE IF ~IsNumber(x) THEN Raise("TypeError")
    ELSE LET key == IF IsIntLike(x) THEN MkFloat(x.n, 1) ELSE x
             hits == {e \in MathTable : e[1] = name /\ e[2] = key}
         IN  IF hits = {} THEN Unmodelled ELSE (CHOOSE e \in hits : TRUE)[3]

(***************************************************************************)
(* CalculatorEngine: the environment evaluate builds, and eval in it.      *)
(***************************************************************************)
\* A callable of env: s = <<kind, name>>.  "builtin" is a function of math or
\* the builtin abs; "trig_lambda" the lambda _get_trig_func returns in DEG;
\* "inv_func" the closure func of _get_inv_trig_func.
Callable(kind, name) == Val("func", 0, 1, <<kind, name>>, <<>>)

\* a _get_trig_func that converts from degrees in either mode
TrigFuncOfDegrees(mode, func_name) == Callable("trig_lambda", func_name)

_get_trig_func(mode, func_name) ==
    IF mode = "DEG" THEN Callable("trig_lambda", func_name)
    ELSE Callable("builtin", func_name)

_get_inv_trig_func(func_name) == Callable("inv_func", func_name)

PiValue == MkIrr("3.141592653589793")
EValue == MkIrr("2.718281828459045")

\* env of evaluate, built while angle_mode = mode
Env(mode) ==
    ( <<"s","q","r","t">> :> Callable("builtin", "sqrt") ) @@
    ( <<"a","b","s">> :> Callable("builtin", "abs") ) @@
    ( <<"f","a","c","t">> :> Callable("builtin", "factorial") ) @@
    ( <<"l","o","g">> :> Callable("builtin", "log10") ) @@
    ( <<"l","n">> :> Callable("builtin", "log") ) @@
    ( <<"e","x","p">> :> Callable("builtin", "exp") ) @@
    ( <<"s","i","n">> :> _get_trig_func(mode, "sin") ) @@
    ( <<"c","o","s">> :> _get_trig_func(mode, "cos") ) @@
    ( <<"t","a","n">> :> _get_trig_func(mode, "tan") ) @@
    ( <<"a","s","i","n">> :> _get_inv_trig_func("asin") ) @@
    ( <<"a","c","o","s">> :> _get_inv_trig_func("acos") ) @@
    ( <<"a","t","a","n">> :> _get_inv_trig_func("atan") ) @@
    ( <<"p","i">> :> PiValue ) @@
    ( <<"e">> :> EValue )

\* the lambda of _get_trig_func: getattr(math, func_name)(math.radians(x))
TrigLambda(func_name, x) == MathCall(func_name, MathCall("radians", x))

\* func of _get_inv_trig_func, applied while angle_mode = live
InvFunc(func_name, x, live) ==
    LET val == MathCall(func_name, x)
    IN  IF Stops(val) THEN val
        ELSE IF live = "DEG" THEN MathCall("degrees", val) ELSE val

\* f(*args), f and args evaluated, while angle_mode = live
Apply(f, args, live) ==
    IF f.k # "func" THEN Raise("TypeError")
    ELSE IF Len(args) # 1
    THEN IF f.s = <<"builtin", "log">> /\ Len(args) = 2 THEN Unmodelled  \* math.log(x, base)
         ELSE Raise("TypeError")
    ELSE IF f.s[1] = "trig_lambda" THEN TrigLambda(f.s[2], args[1])
    ELSE IF f.s[1] = "inv_func" THEN InvFunc(f.s[2], args[1], live)
    ELSE IF f.s[2] = "abs" THEN PyAbs(args[1])
    ELSE IF f.s[2] = "factorial" THEN MathFactorial(args[1])
    ELSE MathCall(f.s[2], args[1])

RECURSIVE Eval(_, _, _), EvalSeq(_, _, _, _), EvalCmp(_, _, _, _)

\* the values of nodes, left to right, as a tuple; or the value that stopped it
EvalSeq(nodes, e, live, acc) ==
    IF nodes = <<>> THEN MkTuple(acc)
    ELSE LET v == Eval(Head(nodes), e, live)
         IN  IF Stops(v) THEN v ELSE EvalSeq(Tail(nodes), e, live, Append(acc, v))

\* l < n1 < n2 ...: stops at the first comparison that is false
EvalCmp(l, nodes, e, live) ==
    IF nodes = <<>> THEN MkBool(TRUE)
    ELSE LET r == Eval(Head(nodes), e, live)
             c == Less(l, r)
         IN  IF Stops(r) THEN r
             ELSE IF Stops(c) \/ c.n = 0 \/ Len(nodes) = 1 THEN c
             ELSE EvalCmp(r, Tail(nodes), e, live)

\* the value of the tree in env e, while angle_mode = live
Eval(node, e, live) ==
    CASE node.op = "const" -> node.v
      [] node.op = "name" -> IF node.id \in DOMAIN e THEN e[node.id] ELSE Raise("NameError")
      [] node.op = "tuple" -> EvalSeq(node.items, e, live, <<>>)
      [] node.op = "list" ->
            LET t == EvalSeq(node.items, e, live, <<>>)
            IN  IF Stops(t) THEN t ELSE MkList(t.items)
      [] node.op = "un" ->
            LET x == Eval(node.x, e, live)
            IN  IF Stops(x) THEN x ELSE IF node.o = <<"-">> THEN PyNeg(x) ELSE PyPos(x)
      [] node.op = "bin" ->
            LET l == Eval(node.l, e, live)
                r == Eval(node.r, e, live)
            IN  IF Stops(l) THEN l ELSE IF Stops(r) THEN r ELSE BinOp(node.o, l, r)
      [] node.op = "cmp" ->
            LET l == Eval(node.first, e, live)
            IN  IF Stops(l) THEN l ELSE EvalCmp(l, node.rest, e, live)
      [] node.op = "call" ->
            LET f == Eval(node.f, e, live)
                args == EvalSeq(node.args, e, live, <<>>)
            IN  IF Stops(f) THEN f ELSE IF Stops(args) THEN args
                ELSE Apply(f, args.items, live)

\* the value of the parse p
EvalParsed(p, e, live) ==
    IF p.st = "unmodelled" THEN Unmodelled
    ELSE IF p.st = "syntax" THEN Raise("SyntaxError")
    ELSE Eval(p.node, e, live)

\* eval(text, {"__builtins__": None}, e), while angle_mode = live
PyEval(text, e, live) == EvalParsed(ParseEval(Lex(text, 1)), e, live)

(***************************************************************************)
(* str and repr of values.                                                 *)
(***************************************************************************)
RECURSIVE DecimalPlaces(_, _)
\* the least k <= 9 with 10^k a multiple of d, or -1: the decimal places of n/d
DecimalPlaces(d, k) ==
    IF k > 9 THEN -1 ELSE IF Pow10(k) % d = 0 THEN k ELSE DecimalPlaces(d, k + 1)

\* repr(f) of a float n/d that is a decimal of few digits and at least 1e-4
ReprFloat(f) ==
    LET k == DecimalPlaces(FDen(f), 0)
        m == Abs(f.n) * (Pow10(k) \div FDen(f))
        raw == NatText(m)
        ds == Zeros(k + 1 - Len(raw)) \o raw
        int == SubSeq(ds, 1, Len(ds) - k)
        frac == StripTrailingZeros(SubSeq(ds, Len(ds) - k + 1, Len(ds)))
    IN  IF k < 0 \/ k > 4 \/ Abs(f.n) > 99999 THEN UnmodelledText
        ELSE IF f.n # 0 /\ Abs(f.n) * 10000 < FDen(f) THEN UnmodelledText
        ELSE (IF FIsNeg(f) THEN <<"-">> ELSE <<>>) \o int \o <<".">>
             \o (IF frac = <<>> THEN <<"0">> ELSE frac)

\* repr of a function: the address is whatever the allocator gave
AddressText == <<"<address>">>

FuncText(f) ==
    CASE f.s[1] = "trig_lambda" ->
            <<"<", "f", "u", "n", "c", "t", "i", "o", "n", " ", "C", "a", "l", "c", "u", "l", "a", "t", "o", "r", "E", "n", "g", "i", "n", "e", ".", "_", "g", "e", "t", "_", "t", "r", "i", "g", "_", "f", "u", "n", "c", ".", "<", "l", "o", "c", "a", "l", "s", ">", ".", "<", "l", "a", "m", "b", "d", "a", ">", " ", "a", "t", " ", "0", "x">> \o AddressText \o <<">">>
      [] f.s[1] = "inv_func" ->
            <<"<", "f", "u", "n", "c", "t", "i", "o", "n", " ", "C", "a", "l", "c", "u", "l", "a", "t", "o", "r", "E", "n", "g", "i", "n", "e", ".", "_", "g", "e", "t", "_", "i", "n", "v", "_", "t", "r", "i", "g", "_", "f", "u", "n", "c", ".", "<", "l", "o", "c", "a", "l", "s", ">", ".", "f", "u", "n", "c", " ", "a", "t", " ", "0", "x">> \o AddressText \o <<">">>
      [] OTHER ->
            <<"<", "b", "u", "i", "l", "t", "-", "i", "n", " ", "f", "u", "n", "c", "t", "i", "o", "n", " ">> \o
            (CASE f.s[2] = "sqrt" -> <<"s","q","r","t">>
               [] f.s[2] = "abs" -> <<"a","b","s">>
               [] f.s[2] = "factorial" -> <<"f","a","c","t","o","r","i","a","l">>
               [] f.s[2] = "log10" -> <<"l","o","g","1","0">>
               [] f.s[2] = "log" -> <<"l","o","g">>
               [] f.s[2] = "exp" -> <<"e","x","p">>
               [] f.s[2] = "sin" -> <<"s","i","n">>
               [] f.s[2] = "cos" -> <<"c","o","s">>
               [] f.s[2] = "tan" -> <<"t","a","n">>) \o <<">">>

\* repr(x) of a float the math library returned
IrrRepr(x) ==
    LET hits == {e \in IrrTable : e[1] = x.s[1]}
    IN  IF hits = {} THEN UnmodelledText
        ELSE (IF x.n < 0 THEN <<"-">> ELSE <<>>) \o (CHOOSE e \in hits : TRUE)[2]

RECURSIVE ReprVal(_), ReprItems(_)
ReprItems(items) ==
    IF items = <<>> THEN <<>>
    ELSE ReprVal(Head(items))
         \o (IF Len(items) > 1 THEN <<",", " ">> \o ReprItems(Tail(items)) ELSE <<>>)

ReprVal(v) ==
    CASE v.k = "int" -> IntText(v.n)
      [] v.k = "bool" -> IF v.n = 1 THEN <<"T","r","u","e">> ELSE <<"F","a","l","s","e">>
      [] v.k = "float" -> ReprFloat(v)
      [] v.k = "irr" -> IrrRepr(v)
      [] v.k = "str" -> <<"'">> \o v.s \o <<"'">>
      [] v.k = "func" -> FuncText(v)
      [] v.k = "tuple" ->
            <<"(">> \o ReprItems(v.items) \o (IF Len(v.items) = 1 THEN <<",">> ELSE <<>>) \o <<")">>
      [] v.k = "list" -> <<"[">> \o ReprItems(v.items) \o <<"]">>
      [] OTHER -> UnmodelledText

\* str(v)
StrVal(v) == IF v.k = "str" THEN v.s ELSE ReprVal(v)

\* a text with a part the model does not compute
HasUnmodelled(text) == \E i \in 1..Len(text) : text[i] = UnmodelledText[1]

(***************************************************************************)
(* evaluate.                                                               *)
(***************************************************************************)
TinyExp == 10   \* results below 1e-10 in magnitude are shown as 0

ErrorText == <<"E", "r", "r", "o", "r">>
DivByZeroText == <<"E", "r", "r", "o", "r", ":", " ", "D", "i", "v", " ", "b", "y", " ", "0">>

\* what a call does: it returns a text, or an exception leaves it
Returned(text) == [raised |-> "none", text |-> text]
Propagated(exc) == [raised |-> exc, text |-> <<>>]

\* the classes of Python's exceptions: exc and its bases
Bases(exc) ==
    {exc, "Exception", "BaseException"} \cup
    (IF exc \in {"ZeroDivisionError", "OverflowError"} THEN {"ArithmeticError"} ELSE {})

\* an `except handler:` that catches the named class alone, none of its subclasses
CaughtExactly(handler, exc) == handler = exc

\* `except handler:` catches exc
Caught(handler, exc) == handler \in Bases(exc)

\* abs(result) < 1e-10 for a float n/d
IsTiny(f) ==
    /\ Abs(f.n) < FDen(f)
    /\ (f.n = 0 \/ LeadZeros(Abs(f.n), FDen(f)) >= TinyExp)

\* f"{result:.10g}" of a float, after `if abs(result) < 1e-10: result = 0`
FormatFloat(result) ==
    CASE result.k = "float" ->
            IF IsTiny(result) THEN <<"0">>
            ELSE LET g == FloatSig(result)
                 IN  IF g.ok THEN RenderG(FIsNeg(result), g.ds, g.x) ELSE UnmodelledText
      [] result.k = "dec" ->
            LET g == DecSig(result.s, result.d)
            IN  IF g.x < -TinyExp THEN <<"0">>
                ELSE IF g.ok THEN RenderG(result.n < 0, g.ds, g.x) ELSE UnmodelledText
      [] result.k = "irr" ->
            LET hits == {e \in IrrTable : e[1] = result.s[1]}
                hit == CHOOSE e \in hits : TRUE
            IN  IF hits = {} THEN UnmodelledText
                ELSE IF hit[4] THEN <<"0">>
                ELSE (IF result.n < 0 THEN <<"-">> ELSE <<>>) \o hit[3]

\* the lines of evaluate after eval returned `result`
FormatResult(result) ==
    IF result.k \in {"float", "dec", "irr"} THEN FormatFloat(result) ELSE StrVal(result)

\* what evaluate does with the outcome of eval: the except clauses, the
\* formatting of a result
Outcome(result) ==
    IF IsUnmodelled(result) THEN Returned(UnmodelledText)
    ELSE IF IsRaise(result)
    THEN IF Caught("ZeroDivisionError", result.s[1]) THEN Returned(DivByZeroText)
         ELSE IF Caught("Exception", result.s[1]) THEN Returned(ErrorText)
         ELSE Propagated(result.s[1])
    ELSE Returned(FormatResult(result))

\* evaluate from eval on: e is the env the call built, live the angle_mode
\* while eval runs
EvalAndFormat(expression, e, live) == Outcome(PyEval(CleanExpr(expression), e, live))

\* engine.evaluate(expression) with angle_mode = mode throughout
evaluate(expression, mode) ==
    IF expression = <<>> THEN Returned(<<>>)
    ELSE EvalAndFormat(expression, Env(mode), mode)

(***************************************************************************)
(* The expressions handed to evaluate: the strings of at most MaxTokens    *)
(* words of Alphabet, and Samples.                                         *)
(***************************************************************************)
Alphabet == { <<"1">>, <<"0">>, <<DivGlyph>>, <<"<">>, <<"(">>, <<")">>, <<"s", "i", "n">> }

RECURSIVE TokenStrings(_)
TokenStrings(n) ==
    IF n = 0 THEN { <<>> }
    ELSE LET shorter == TokenStrings(n - 1)
         IN  shorter \cup {s \o t : s \in shorter, t \in Alphabet}

Expressions == TokenStrings(MaxTokens) \cup Samples


(***************************************************************************)
(* solve_quadratic.  The coefficients are whole numbers, ints or floats;   *)
(* a root is (p + sigma * sqrt(D)) / q with integers p, q, D and sigma 1   *)
(* or -1.  Where D is a square the root is computed in the floats n/d;     *)
(* where it is not, its two decimals come from integer arithmetic on the   *)
(* exact root.                                                             *)
(***************************************************************************)
\* the integer square root
RECURSIVE ISqrt(_)
ISqrt(n) ==
    IF n < 2 THEN n
    ELSE LET r == 2 * ISqrt(n \div 4) IN IF (r + 1) * (r + 1) <= n THEN r + 1 ELSE r

IsSquare(n) == n >= 0 /\ ISqrt(n) * ISqrt(n) = n

\* the two decimals of f"{x:.2f}" for hundredths h >= 0 and sign `neg`
FixedText(neg, h) ==
    (IF neg THEN <<"-">> ELSE <<>>) \o NatText(h \div 100)
    \o <<".", DigitChar((h % 100) \div 10), DigitChar(h % 10)>>

\* |f| in hundredths, rounded as f"{f:.2f}" rounds: to nearest, a tie to even
\* (-1 for a tie of a value that is not a double)
Hundredths(f) ==
    LET n == Abs(f.n)
        d == FDen(f)
        up == (200 * n + d) \div (2 * d)
        tie == (200 * n + d) % (2 * d) = 0
    IN  IF ~tie THEN up ELSE IF ~IsPow2(d) THEN -1 ELSE IF up % 2 = 1 THEN up - 1 ELSE up

\* f"{f:.2f}" of a float n/d
Fixed2(f) ==
    IF Hundredths(f) < 0 THEN UnmodelledText ELSE FixedText(FIsNeg(f), Hundredths(f))

\* (p + sigma * sqrt(D)) / q > 0, D not a square
SurdPositive(p, sigma, D, q) ==
    LET num == IF sigma = 1 THEN p >= 0 \/ p * p < D ELSE p > 0 /\ p * p > D
    IN  num = (q > 0)

\* |(p + sigma * sqrt(D)) / q| in hundredths, rounded to nearest; D not a square
SurdHundredths(p, sigma, D, q) ==
    LET pos == SurdPositive(p, sigma, D, q)
        flip == IF (q > 0) = pos THEN 1 ELSE -1     \* makes numerator and denominator positive
        pp == flip * p
        ss == flip * sigma
        qq == Abs(q)
        root == ISqrt(40000 * D)
    IN  IF ss = 1 THEN FloorDiv(200 * pp + qq + root, 2 * qq)
        ELSE FloorDiv(200 * pp + qq - (root + 1), 2 * qq)

\* f"{x:.2f}" of x = (p + sigma * sqrt(D)) / q, as the floats compute it
RootText(p, sigma, D, q) ==
    IF IsSquare(D)
    THEN Fixed2(FDiv(FloatOp(IF sigma = 1 THEN <<"+">> ELSE <<"-">>, ToFloat(p), MkFloat(ISqrt(D), 1)),
                     ToFloat(q)))
    ELSE FixedText(~SurdPositive(p.n, sigma, D, q.n), SurdHundredths(p.n, sigma, D, q.n))

\* f"{z:.2f}" of the complex z = re + (sigma * sqrt(D) / q) j
ComplexText(re, sigma, D, q) ==
    LET im == RootText(MkFloat(0, 1), sigma, D, q)
    IN  Fixed2(re) \o (IF im[1] = "-" THEN im ELSE <<"+">> \o im) \o <<"j">>

\* a discriminant with the sign of 4*a*c turned: b**2 + 4*a*c
DiscriminantPlus(a, b, c) ==
    BinOp(<<"+">>, PyPow(b, MkInt(2)), BinOp(<<"*">>, BinOp(<<"*">>, MkInt(4), a), c))

\* d = b**2 - 4*a*c
Discriminant(a, b, c) ==
    BinOp(<<"-">>, PyPow(b, MkInt(2)), BinOp(<<"*">>, BinOp(<<"*">>, MkInt(4), a), c))

\* engine.solve_quadratic(a, b, c) on numbers of whole value
solve_quadratic(a, b, c) ==
    LET d == Discriminant(a, b, c)
        negb == PyNeg(b)
        twoa == BinOp(<<"*">>, MkInt(2), a)
    IN  IF Less(d, MkInt(0)).n = 1
        THEN \* val = cmath.sqrt(d) is sqrt(-d) j; val / (2*a) has the real part 0.0 / (2*a)
             LET re == BinOp(<<"/">>, negb, twoa)
                 zr == FZero(twoa.n < 0)
             IN  Returned(ComplexText(FAdd(re, zr), 1, -d.n, twoa)
                          \o <<",", " ">> \o ComplexText(FSub(re, zr), -1, -d.n, twoa))
        ELSE IF twoa.n = 0 THEN Propagated("ZeroDivisionError")
        ELSE Returned(RootText(negb, 1, d.n, twoa) \o <<",", " ">> \o RootText(negb, -1, d.n, twoa))

(***************************************************************************)
(* The calls.  last_call is the most recent call of the engine: its name,  *)
(* its arguments, the angle_mode it started in and what it did.  While pc  *)
(* is "request" the call has been asked for and has not started.           *)
(***************************************************************************)
Call(op, args, mode, ret) == [op |-> op, args |-> args, mode |-> mode, ret |-> ret]
Pending == [raised |-> "pending", text |-> <<>>]
NoCall == Call("none", <<>>, "DEG", Pending)
NoEnv == <<>>

Coefs == -MaxCoef..MaxCoef
\* a coefficient as the caller passes it: an int, or the float of an entry field
Coef(as_float, n) == IF as_float THEN MkFloat(n, 1) ELSE MkInt(n)

EvaluateRequests == {Call("evaluate", <<x>>, "DEG", Pending) : x \in Expressions}
SolveRequests ==
    {Call("solve_quadratic", <<Coef(f, a), Coef(f, b), Coef(f, c)>>, "DEG", Pending) :
        f \in BOOLEAN, a \in Coefs, b \in Coefs, c \in Coefs}

\* CalculatorEngine.__init__ and CalculatorApp.__init__
Constructed ==
    /\ current_expression = <<>>
    /\ is_result_shown = FALSE
    /\ angle_mode = "DEG"
    /\ history = <<>>
    /\ mode_presses = 0
    /\ env = NoEnv

(***************************************************************************)
(* The engine, called directly: one call of evaluate or solve_quadratic on *)
(* each of the arguments, after any number of clicks on the mode button.   *)
(***************************************************************************)
InitEngine ==
    /\ Constructed
    /\ pc = "request"
    /\ last_call \in EvaluateRequests \cup SolveRequests

\* engine.evaluate(expression)
Evaluate ==
    /\ pc = "request"
    /\ last_call.op = "evaluate"
    /\ last_call' = [last_call EXCEPT !.mode = angle_mode,
                                      !.ret = evaluate(last_call.args[1], angle_mode)]
    /\ pc' = "idle"
    /\ UNCHANGED <<current_expression, is_result_shown, angle_mode, history, mode_presses, env>>

\* engine.solve_quadratic(a, b, c)
SolveQuadratic ==
    /\ pc = "request"
    /\ last_call.op = "solve_quadratic"
    /\ last_call' = [last_call EXCEPT !.mode = angle_mode,
                        !.ret = solve_quadratic(last_call.args[1], last_call.args[2], last_call.args[3])]
    /\ pc' = "idle"
    /\ UNCHANGED <<current_expression, is_result_shown, angle_mode, history, mode_presses, env>>

\* on_button_click('DEG'): the one place angle_mode is assigned after __init__
ClickMode ==
    /\ mode_presses < MaxPresses
    /\ angle_mode' = "RAD"
    /\ mode_presses' = mode_presses + 1
    /\ UNCHANGED <<current_expression, is_result_shown, history, last_call, pc, env>>

NextEngine == Evaluate \/ SolveQuadratic \/ ClickMode

SpecEngine == InitEngine /\ [][NextEngine]_vars

\* every result is one the model computes
ModelCovers == ~HasUnmodelled(last_call.ret.text) /\ ~HasUnmodelled(current_expression)

(***************************************************************************)
(* evaluate with another thread at the mode button: the call builds env    *)
(* (EnterEvaluate), then runs eval and formats (RunEval); a click may fall *)
(* before, between and after the two.                                      *)
(***************************************************************************)
InitConc ==
    /\ Constructed
    /\ pc = "request"
    /\ last_call \in EvaluateRequests

\* evaluate up to the construction of env
EnterEvaluate ==
    /\ pc = "request"
    /\ IF last_call.args[1] = <<>>
       THEN /\ last_call' = [last_call EXCEPT !.mode = angle_mode, !.ret = Returned(<<>>)]
            /\ pc' = "idle"
            /\ env' = env
       ELSE /\ last_call' = [last_call EXCEPT !.mode = angle_mode]
            /\ pc' = "built"
            /\ env' = Env(angle_mode)
    /\ UNCHANGED <<current_expression, is_result_shown, angle_mode, history, mode_presses>>

\* evaluate from eval on
RunEval ==
    /\ pc = "built"
    /\ last_call' = [last_call EXCEPT !.ret = EvalAndFormat(last_call.args[1], env, angle_mode)]
    /\ pc' = "idle"
    /\ UNCHANGED <<current_expression, is_result_shown, angle_mode, history, mode_presses, env>>

NextConc == EnterEvaluate \/ RunEval \/ ClickMode

SpecConc == InitConc /\ [][NextConc]_vars

(***************************************************************************)
(* CalculatorApp: the buttons and the keys.                                *)
(***************************************************************************)
\* the characters typed in the model: a digit and an operator
TypedChars == {"0", DivGlyph}

SquareLabel == "xU+00B2"         \* the label of the square button
HistoryShown == 10              \* toggle_history shows the last 10 entries

Init ==
    /\ Constructed
    /\ pc = "idle"
    /\ last_call = NoCall

\* on_button_click('C')
ClickClear ==
    /\ current_expression' = <<>>
    /\ is_result_shown' = FALSE
    /\ UNCHANGED <<angle_mode, history, mode_presses, last_call, pc, env>>

\* on_button_click of the erase button
ClickBackspace ==
    /\ current_expression' = SubSeq(current_expression, 1, Len(current_expression) - 1)
    /\ UNCHANGED <<is_result_shown, angle_mode, history, mode_presses, last_call, pc, env>>

\* on_button_click of the plus-minus button
ClickSign ==
    /\ current_expression' =
          IF current_expression # <<>> /\ current_expression[1] = "-"
          THEN Tail(current_expression)
          ELSE <<"-">> \o current_expression
    /\ UNCHANGED <<is_result_shown, angle_mode, history, mode_presses, last_call, pc, env>>

\* on_button_click(char) for any other button or key
ClickChar(char) ==
    /\ is_result_shown \/ Len(current_expression) < MaxLen
    /\ IF is_result_shown /\ char \in Digits \cup {"."}
       THEN current_expression' = <<char>>
       ELSE current_expression' =
               current_expression \o (IF char = SquareLabel THEN <<"^", "2">> ELSE <<char>>)
    /\ is_result_shown' = FALSE
    /\ UNCHANGED <<angle_mode, history, mode_presses, last_call, pc, env>>

\* f"{expression} = {result}"
HistoryEntry(expression, result) == expression \o <<" ", "=", " ">> \o result

\* _calculate_result once evaluate returned `outcome`; an exception out of
\* evaluate would leave the handler before it assigns anything
ShowResult(outcome) ==
    IF outcome.raised # "none"
    THEN UNCHANGED <<current_expression, is_result_shown, history, last_call>>
    ELSE /\ history' = IF outcome.text # ErrorText
                       THEN Append(history, HistoryEntry(current_expression, outcome.text))
                       ELSE history
         /\ current_expression' = outcome.text
         /\ is_result_shown' = TRUE
         /\ last_call' = Call("evaluate", <<current_expression>>, angle_mode, outcome)

\* on_button_click('='): _calculate_result
ClickEquals ==
    /\ Len(history) < MaxHist
    /\ ShowResult(evaluate(current_expression, angle_mode))
    /\ UNCHANGED <<angle_mode, mode_presses, pc, env>>

\* the text toggle_history shows
RECURSIVE JoinLines(_)
JoinLines(h) ==
    IF h = <<>> THEN <<>>
    ELSE Head(h) \o (IF Len(h) > 1 THEN <<"\n">> \o JoinLines(Tail(h)) ELSE <<>>)

\* hist if hist else "No history yet."
HistOrNone(hist) ==
    IF hist = <<>>
    THEN <<"N", "o", " ", "h", "i", "s", "t", "o", "r", "y", " ", "y", "e", "t", ".">>
    ELSE hist

toggle_history(h) ==
    HistOrNone(JoinLines(SubSeq(h, IF Len(h) > HistoryShown THEN Len(h) - HistoryShown + 1 ELSE 1,
                                Len(h))))

\* toggle_history: the history is read and shown
ToggleHistory == UNCHANGED vars

Next ==
    \/ ClickClear
    \/ ClickBackspace
    \/ ClickSign
    \/ \E char \in TypedChars : ClickChar(char)
    \/ ClickEquals
    \/ ClickMode
    \/ ToggleHistory

Spec == Init /\ [][Next]_vars

(***************************************************************************)
(* Properties of the engine calls.                                         *)
(***************************************************************************)
\* the call of last_call, an `op`, is over
Done(op) == pc = "idle" /\ last_call.op = op /\ last_call.ret.raised # "pending"

\* the call of last_call was evaluate(expression)
Evaluated(expression) == Done("evaluate") /\ last_call.args[1] = expression

\* what eval came to in the call of last_call
EvalOfCall == PyEval(CleanExpr(last_call.args[1]), Env(last_call.mode), last_call.mode)

\* the call returned, and returned the text of the failure r if r is one
Classified(r, ret) ==
    /\ ret.raised = "none"
    /\ IsRaise(r) =>
          ret.text = IF r.s[1] = "ZeroDivisionError" THEN DivByZeroText ELSE ErrorText

\* C1: evaluate never raises to its caller; where eval fails with a division
\* by zero it returns "Error: Div by 0", where eval fails in any other way
\* (a syntax error, an unknown name, a domain error) it returns "Error".
C1_NeverRaises ==
    Done("evaluate") =>
        /\ last_call.ret.raised = "none"
        /\ last_call.args[1] # <<>> => Classified(EvalOfCall, last_call.ret)
        /\ Evaluated(<<"1", "0", "/", "0">>) => last_call.ret.text = DivByZeroText
        /\ Evaluated(<<"1", DivGlyph, "0">>) => last_call.ret.text = DivByZeroText
        /\ Evaluated(<<"(">>) => last_call.ret.text = ErrorText
        /\ Evaluated(<<"f", "o", "o">>) => last_call.ret.text = ErrorText
        /\ Evaluated(<<"s", "q", "r", "t", "(", "-", "1", ")">>) => last_call.ret.text = ErrorText

\* evaluate("10/0") has returned the division-by-zero text
C1_Witness == Evaluated(<<"1", "0", "/", "0">>) /\ last_call.ret = Returned(DivByZeroText)

\* [-]digits[.digits][e(+|-)digits]: the texts f"{x:.10g}" and str(int) give
IsNumericText(t) ==
    LET i0 == IF t # <<>> /\ t[1] = "-" THEN 2 ELSE 1
        i1 == SpanEnd(t, i0, Digits)
        i2 == IF i1 <= Len(t) /\ t[i1] = "." THEN SpanEnd(t, i1 + 1, Digits) ELSE i1
        i3 == IF i2 < Len(t) /\ t[i2] = "e" /\ t[i2 + 1] \in {"+", "-"}
              THEN SpanEnd(t, i2 + 2, Digits) ELSE i2
    IN  /\ i1 > i0
        /\ i2 = i1 \/ i2 > i1 + 1
        /\ i3 = i2 \/ i3 > i2 + 2
        /\ i3 = Len(t) + 1

\* C2: whatever the input, evaluate returns a numeric text, "Error" or
\* "Error: Div by 0", and nothing else.
C2_NumericOrError ==
    Done("evaluate") =>
        /\ last_call.ret.raised = "none"
        /\ \/ IsNumericText(last_call.ret.text)
           \/ last_call.ret.text \in {ErrorText, DivByZeroText}

\* C3: the mode is Degrees at first and each click of the mode button leads
\* to the other mode: Degrees after an even number of clicks, Radians after
\* an odd number.
C3_TwoWayToggle == angle_mode = IF mode_presses % 2 = 0 THEN "DEG" ELSE "RAD"

TrigNames ==
    { <<"s", "i", "n">>, <<"c", "o", "s">>, <<"t", "a", "n">>,
      <<"a", "s", "i", "n">>, <<"a", "c", "o", "s">>, <<"a", "t", "a", "n">> }

\* the text applies one of the six: its name, then an opening parenthesis
AppliesTrig(text) ==
    \E i \in 1..Len(text), name \in TrigNames : StartsWith(text, i, name \o <<"(">>)

OtherMode(mode) == IF mode = "DEG" THEN "RAD" ELSE "DEG"

\* C4: an expression that applies none of sin, cos, tan, asin, acos, atan
\* evaluates to the same text in Degrees and in Radians.
C4_ModeOnlyTrig ==
    (Done("evaluate") /\ ~AppliesTrig(last_call.args[1])) =>
        last_call.ret = evaluate(last_call.args[1], OtherMode(last_call.mode))

\* the six functions: the name in math, the name in an expression
TrigFuncs ==
    { <<"sin", <<"s", "i", "n">>>>, <<"cos", <<"c", "o", "s">>>>, <<"tan", <<"t", "a", "n">>>>,
      <<"asin", <<"a", "s", "i", "n">>>>, <<"acos", <<"a", "c", "o", "s">>>>,
      <<"atan", <<"a", "t", "a", "n">>>> }

\* the arguments the six are applied to
TrigArgs == {-90, -1, 0, 1, 2, 30, 45, 60, 90, 180}

\* name(n) as an expression
TrigCall(name, n) == name \o <<"(">> \o IntText(n) \o <<")">>

\* in Degrees the argument turned to radians, the function applied
ForwardIn(mode, f, x) ==
    IF mode = "DEG" THEN MathCall(f, MathCall("radians", x)) ELSE MathCall(f, x)

\* the result `val` of an inverse function, turned to degrees in Degrees
InverseIn(mode, val) ==
    IF mode = "DEG" /\ ~Stops(val) THEN MathCall("degrees", val) ELSE val

\* what the dispatch of the claim computes for f(x) in `mode`
Dispatched(mode, f, x) ==
    IF f \in {"sin", "cos", "tan"} THEN ForwardIn(mode, f, x)
    ELSE InverseIn(mode, MathCall(f, x))

\* C5: a call of evaluate runs in the mode of the most recent click (Degrees
\* when there was none); in Degrees sin, cos, tan take their argument in
\* degrees and asin, acos, atan give their result in degrees, in Radians the
\* six are those of math.  So sin(90) is "1" at first and sin(0) is "0" in
\* Radians.
C5_DispatchFollowsMode ==
    Done("evaluate") =>
        /\ mode_presses = 0 => last_call.mode = "DEG"
        /\ \A f \in TrigFuncs, n \in TrigArgs :
              Evaluated(TrigCall(f[2], n)) =>
                  last_call.ret = Outcome(Dispatched(last_call.mode, f[1], MkInt(n)))
        /\ Evaluated(<<"s", "i", "n", "(", "9", "0", ")">>) =>
              last_call.ret.text = IF last_call.mode = "DEG" THEN <<"1">>
                                   ELSE <<"0", ".", "8", "9", "3", "9", "9", "6", "6", "6", "3", "6">>
        /\ Evaluated(<<"s", "i", "n", "(", "0", ")">>) => last_call.ret.text = <<"0">>
        /\ Evaluated(<<"a", "s", "i", "n", "(", "1", ")">>) =>
              last_call.ret.text = IF last_call.mode = "DEG" THEN <<"9", "0">>
                                   ELSE <<"1", ".", "5", "7", "0", "7", "9", "6", "3", "2", "7">>

\* evaluate("sin(0)") has returned "0" after a click set Radians
C5_Witness ==
    /\ Evaluated(<<"s", "i", "n", "(", "0", ")">>)
    /\ mode_presses > 0
    /\ last_call.mode = "RAD"
    /\ last_call.ret = Returned(<<"0">>)

(***************************************************************************)
(* Properties of the history.                                              *)
(***************************************************************************)
\* C6: pressing '=' leaves the history as it was when evaluate returned
\* "Error" or "Error: Div by 0": no entry records either.
C6_ErrorsNotRecorded ==
    (Done("evaluate") /\ last_call.ret.text \in {ErrorText, DivByZeroText}) =>
        \A i \in 1..Len(history) :
            history[i] # HistoryEntry(last_call.args[1], last_call.ret.text)

(***************************************************************************)
(* Properties of solve_quadratic.                                          *)
(***************************************************************************)
\* C7: solve_quadratic with a = 0 returns; no exception leaves the call.
C7_DegenerateClassified ==
    (Done("solve_quadratic") /\ last_call.args[1].n = 0) => last_call.ret.raised = "none"

\* the text is [-]digits.dd
IsFixed(t) ==
    LET i0 == IF t # <<>> /\ t[1] = "-" THEN 2 ELSE 1
        i1 == SpanEnd(t, i0, Digits)
    IN  /\ i1 > i0
        /\ Len(t) = i1 + 2
        /\ t[i1] = "."
        /\ t[i1 + 1] \in Digits /\ t[i1 + 2] \in Digits

\* the number a text [-]digits.dd writes, in hundredths
FixedValue(t) ==
    LET neg == t[1] = "-"
        body == IF neg THEN Tail(t) ELSE t
        h == 100 * DigitsNat(SubSeq(body, 1, Len(body) - 3))
             + DigitsNat(SubSeq(body, Len(body) - 1, Len(body)))
    IN  IF neg THEN -h ELSE h

\* lo <= 200 * sqrt(D) <= hi
SqrtBetween(lo, hi, D) ==
    /\ hi >= 0 /\ hi * hi >= 40000 * D
    /\ lo <= 0 \/ lo * lo <= 40000 * D

\* h hundredths is (p + sigma * sqrt(D)) / q to two decimals: they differ by
\* at most 1/200
Near(h, p, sigma, D, q) ==
    LET m == sigma * 2 * (h * q - 100 * p)
    IN  SqrtBetween(m - Abs(q), m + Abs(q), D)

\* the two texts of "t1, t2"
FirstRoot(text) == SubSeq(text, 1, IndexOf(text, 1, ",") - 1)
SecondRoot(text) == SubSeq(text, IndexOf(text, 1, ",") + 2, Len(text))

\* of a complex text "re+imj" or "re-imj": where the sign of im stands, re, im
ImSign(t) == SpanEnd(t, 2, Digits \cup {"."})
RePart(t) == SubSeq(t, 1, ImSign(t) - 1)
ImPart(t) == (IF t[ImSign(t)] = "-" THEN <<"-">> ELSE <<>>) \o SubSeq(t, ImSign(t) + 1, Len(t) - 1)
IsComplexText(t) ==
    /\ ImSign(t) < Len(t)
    /\ t[ImSign(t)] \in {"+", "-"}
    /\ t[Len(t)] = "j"
    /\ IsFixed(RePart(t)) /\ IsFixed(ImPart(t))

\* text gives the two real roots of A x^2 + B x + C, '+' root first
RealRoots(text, A, B, D) ==
    /\ IndexOf(text, 1, ",") > 0
    /\ IsFixed(FirstRoot(text)) /\ IsFixed(SecondRoot(text))
    /\ Near(FixedValue(FirstRoot(text)), -B, 1, D, 2 * A)
    /\ Near(FixedValue(SecondRoot(text)), -B, -1, D, 2 * A)

\* text gives the two complex roots: real parts -B/(2A), imaginary parts
\* sqrt(-D)/(2A) and its opposite
ComplexRoots(text, A, B, D) ==
    /\ IndexOf(text, 1, ",") > 0
    /\ IsComplexText(FirstRoot(text)) /\ IsComplexText(SecondRoot(text))
    /\ Near(FixedValue(RePart(FirstRoot(text))), -B, 1, 0, 2 * A)
    /\ FixedValue(RePart(SecondRoot(text))) = FixedValue(RePart(FirstRoot(text)))
    /\ Near(FixedValue(ImPart(FirstRoot(text))), 0, 1, -D, 2 * A)
    /\ FixedValue(ImPart(SecondRoot(text))) = -FixedValue(ImPart(FirstRoot(text)))

RootsOf(ret, A, B, C) ==
    /\ ret.raised = "none"
    /\ IF B * B - 4 * A * C >= 0 THEN RealRoots(ret.text, A, B, B * B - 4 * A * C)
       ELSE ComplexRoots(ret.text, A, B, B * B - 4 * A * C)

SolvedFor(a, b, c) == Done("solve_quadratic") /\ last_call.args = <<a, b, c>>

\* C8: for a # 0 and d = b*b - 4*a*c, solve_quadratic returns for d >= 0 the
\* real roots (-b + sqrt(d))/(2a) and (-b - sqrt(d))/(2a), in this order, to
\* two decimals, and for d < 0 two complex roots with the real part -b/(2a)
\* and opposite imaginary parts; (1, -3, 2) gives "2.00, 1.00" and (1, 0, 1)
\* the real part 0.00.
C8_RootsByDiscriminant ==
    /\ (Done("solve_quadratic") /\ last_call.args[1].n # 0) =>
          RootsOf(last_call.ret, last_call.args[1].n, last_call.args[2].n, last_call.args[3].n)
    /\ SolvedFor(MkInt(1), MkInt(-3), MkInt(2)) =>
          last_call.ret.text = <<"2", ".", "0", "0", ",", " ", "1", ".", "0", "0">>
    /\ SolvedFor(MkInt(1), MkInt(0), MkInt(1)) =>
          last_call.ret.text = <<"0", ".", "0", "0", "+", "1", ".", "0", "0", "j", ",", " ",
                                 "0", ".", "0", "0", "-", "1", ".", "0", "0", "j">>

\* solve_quadratic(1, -3, 2) has returned "2.00, 1.00"
C8_Witness ==
    /\ SolvedFor(MkInt(1), MkInt(-3), MkInt(2))
    /\ last_call.ret = Returned(<<"2", ".", "0", "0", ",", " ", "1", ".", "0", "0">>)

(***************************************************************************)
(* Properties of the characters and of the mode during a call.             *)
(***************************************************************************)
AllowedChars == Digits \cup Letters \cup {".", "+", "-", "*", "/", "^", "(", ")", ","}

HasForeignChar(text) == \E i \in 1..Len(text) : text[i] \notin AllowedChars

\* C9: an expression that holds, its glyphs replaced, a character outside
\* 0-9 . + - * / ^ ( ) , a-z A-Z evaluates to "Error".
C9_ForeignCharRejected ==
    (Done("evaluate") /\ HasForeignChar(CleanExpr(last_call.args[1]))) =>
        last_call.ret = Returned(ErrorText)

\* C10: a call of evaluate computes what the mode it built env in gives,
\* whatever clicks fall while it runs.
C10_ModeSnapshot ==
    Done("evaluate") => last_call.ret = evaluate(last_call.args[1], last_call.mode)

(***************************************************************************)
(* Properties of the result-shown flag.                                    *)
(***************************************************************************)
\* C11: while is_result_shown is true, current_expression is the text the
\* most recent evaluate returned, so that a digit pressed then replaces a
\* result nobody edited.
C11_ShownIsResult ==
    is_result_shown =>
        /\ last_call.op = "evaluate"
        /\ current_expression = last_call.ret.text

====
